---- MODULE Spec2Model ----
(***************************************************************************)
(* The job store and the edit endpoints of VidMod.                         *)
(*                                                                         *)
(* core/pipeline.py  VideoPipeline: the in-memory registry self.jobs, the  *)
(*                   state.json snapshot in the blob store, get_job with   *)
(*                   its disk and blob recovery, cleanup, extract_frames,  *)
(*                   segment_video_with_sam3, replace_with_vace.           *)
(* app/routers/video.py  the request handlers: upload, status, download,   *)
(*                   delete, blur-object, replace-with-runway,             *)
(*                   censor-audio, segment-video-sam3, replace-with-vace.  *)
(*                                                                         *)
(* The handlers are `async def` functions that never await after they have *)
(* loaded the job, so one handler runs at a time on the event loop and is  *)
(* one action here.  The frame extraction that upload schedules is a plain *)
(* function: the framework runs it on a worker thread after the response,  *)
(* so its steps interleave with the handlers.  create_job does its long    *)
(* I/O (copy, blob upload) after cleanup_all_jobs, so upload is two steps. *)
(*                                                                         *)
(* The router addresses the blob uploader and the job's blob URL as        *)
(* s3_uploader / s3_url, the pipeline as gcs_uploader / gcs_url: they are  *)
(* one uploader and one URL here.                                          *)
(*                                                                         *)
(* A file is modelled by what it holds: depth, the number of edits applied *)
(* on top of the uploaded source, and seq, the order in which the edit     *)
(* results were written.  External tools and services succeed or fail      *)
(* nondeterministically; a failed tool run leaves no output file.  Of the  *)
(* files of a job directory the model keeps the source, the edit results   *)
(* and the cached masks, whose presence decides whether blur_object sends  *)
(* a segmentation request; clips, downloaded masks, temporary segments and *)
(* the segmentation video itself are read by no decision modelled here.    *)
(***************************************************************************)
EXTENDS Integers, Sequences, FiniteSets, TLC

\* ---------------------------------------------------------------- bounds
MaxJobs == 2     \* uploads in one run (job ids 1..MaxJobs)
MaxEdits == 2    \* successful edits in one run
NFrames == 2     \* frames the uploaded video yields

Ids == 1..MaxJobs

VARIABLES
    gcs,      \* self.gcs_uploader is configured
    jobs,     \* self.jobs: the in-memory registry
    disk,     \* base_storage_dir/<job id>: the job directories
    blob,     \* the blob store: jobs/<id>/state.json and jobs/<id>/input
    bg,       \* the background extract_frames task of each job
    up,       \* position of the upload handler between cleanup and create
    nextId,   \* the next fresh job id
    clock,    \* the number of edit results written so far
    rw,       \* one call of process_runway_with_chunking
    tl,       \* one time-ranged request, from its clip to its stitch
    mm,       \* one call of _merge_adjacent_matches
    db,       \* one call of cluster_matches
    vc,       \* one call of apply_dubs_with_clone and the provider's voices
    rt,       \* one rate-limited call of segment_frames
    pl,       \* one call of _poll_task
    ts        \* one call of time_stretch_audio

\* the calls followed step by step on their own
later == <<db, vc, rt, pl, ts>>
aux == <<rw, tl, mm, later>>

vars == <<gcs, jobs, disk, blob, bg, up, nextId, clock, aux>>

\* ------------------------------------------------------------ job state
\* PipelineStage values used by the modelled operations.
Stages == {"initialized", "extracting_frames", "video_segmenting",
           "inpainting", "completed", "failed"}

NoJob == [job_id |-> 0]
NoDir == [absent |-> TRUE]
NoState == [absent |-> TRUE]
NoPath == [dir |-> <<>>, name |-> ""]
NoCall == [pc |-> "none"]

\* _get_job_dir: base_storage_dir / job_id
JobDir(j) == <<j>>
FramesDir(j) == <<j, "frames">>
JobPath(j, name) == [dir |-> JobDir(j), name |-> name]
FramePath(j, k) == [dir |-> FramesDir(j), name |-> k]

\* Path(p).name
PathName(p) == p.name

Source == [depth |-> 0, seq |-> 0]

\* path.exists() for a path of job j
Exists(d, j, p) ==
    /\ p # NoPath
    /\ d[j] # NoDir
    /\ \/ p.dir = JobDir(j) /\ p.name \in DOMAIN d[j].files
       \/ p.dir = FramesDir(j) /\ p.name \in d[j].frames

\* sorted(frames_dir.glob("*.png"))
RECURSIVE SortedFrames(_, _)
SortedFrames(j, S) ==
    IF S = {} THEN <<>>
    ELSE LET k == CHOOSE x \in S : \A y \in S : x <= y
         IN <<FramePath(j, k)>> \o SortedFrames(j, S \ {k})

\* JobState(...) as create_job and the disk recovery of get_job build it
NewJob(j, url) ==
    [job_id |-> j,
     video_path |-> JobPath(j, "input"),
     output_path |-> JobPath(j, "output.mp4"),
     frame_paths |-> <<>>,
     video_info |-> "",
     stage |-> "initialized",
     progress |-> 0,
     error |-> "",
     gcs_url |-> url,
     segmented_video_path |-> NoPath]

EmptyDir == [files |-> <<>>, frames |-> {}]

\* job_dir.mkdir(parents=True, exist_ok=True)
Mkdir(d, j) == IF d[j] = NoDir THEN [d EXCEPT ![j] = EmptyDir] ELSE d

\* a file written into the job directory
WriteFile(d, j, name, content) ==
    [d EXCEPT ![j] = [@ EXCEPT !.files = (name :> content) @@ @]]

\* ---------------------------------------------------------- persistence
\* _save_job_state: the dict written to jobs/<id>/state.json
StateDict(job) ==
    [job_id |-> job.job_id,
     video_path |-> job.video_path,
     frames_dir |-> FramesDir(job.job_id),
     stage |-> job.stage,
     progress |-> job.progress,
     video_info |-> job.video_info,
     gcs_url |-> job.gcs_url,
     frame_paths |-> job.frame_paths,
     error |-> job.error]

SaveJobState(b, js, j) ==
    IF ~gcs \/ js[j] = NoJob THEN b
    ELSE [b EXCEPT ![j] = [@ EXCEPT !.state = StateDict(js[j])]]

\* _restore_job_state: the JobState rebuilt from the dict, paths rebuilt
\* from the file names under the local job directory
RestoredJob(j, data) ==
    [job_id |-> data.job_id,
     video_path |-> IF data.video_path # NoPath
                    THEN JobPath(j, PathName(data.video_path)) ELSE NoPath,
     output_path |-> JobPath(j, "output.mp4"),
     frame_paths |-> [i \in DOMAIN data.frame_paths |->
                        [dir |-> FramesDir(j),
                         name |-> PathName(data.frame_paths[i])]],
     video_info |-> data.video_info,
     stage |-> data.stage,
     progress |-> data.progress,
     error |-> data.error,
     gcs_url |-> data.gcs_url,
     segmented_video_path |-> NoPath]

\* self.jobs[job_id] = job
Register(js, j, job) == [js EXCEPT ![j] = job]

\* (a variant that returns the recovered job without registering it)
RecoverUnregistered(js, j, job) == js

\* the registration that ends both recoveries of get_job
Recover(js, j, job) == Register(js, j, job)

\* get_job: memory, then the local directory, then the blob store.
\* dl: the request that re-downloads the source video succeeds.
\* The result carries the registry and the disk as get_job leaves them.
GetJob(j, dl) ==
    IF jobs[j] # NoJob THEN
        [job |-> jobs[j], jobs |-> jobs, disk |-> disk,
         consulted |-> <<"memory">>, found |-> "memory"]
    ELSE IF disk[j] # NoDir /\ "input" \in DOMAIN disk[j].files THEN
        LET job == [NewJob(j, "") EXCEPT
                      !.frame_paths = SortedFrames(j, disk[j].frames)]
        IN [job |-> job, jobs |-> Recover(jobs, j, job), disk |-> disk,
            consulted |-> <<"memory", "disk">>, found |-> "disk"]
    ELSE IF gcs /\ blob[j].state # NoState THEN
        LET job == RestoredJob(j, blob[j].state)
            d1 == Mkdir(disk, j)
            d2 == IF /\ job.video_path # NoPath
                     /\ ~Exists(d1, j, job.video_path)
                     /\ job.gcs_url # ""
                     /\ blob[j].video
                     /\ dl
                  THEN WriteFile(d1, j, PathName(job.video_path), Source)
                  ELSE d1
        IN [job |-> job, jobs |-> Recover(jobs, j, job), disk |-> d2,
            consulted |-> <<"memory", "disk", "blob">>, found |-> "blob"]
    ELSE
        [job |-> NoJob, jobs |-> jobs, disk |-> disk,
         consulted |-> IF gcs THEN <<"memory", "disk", "blob">>
                       ELSE <<"memory", "disk">>,
         found |-> "none"]

NoBg == [pc |-> "none", live |-> FALSE]

\* the worker threads no longer hold the registered job object of any job
\* in gone
Orphan(b, gone) ==
    [j \in Ids |-> IF j \in gone THEN [b[j] EXCEPT !.live = FALSE] ELSE b[j]]

\* the ids that upload has issued so far; a request for any other id finds
\* nothing in memory, on disk or in the blob store and changes nothing
Uploaded == 1..(nextId - 1)

\* a request for job j can arrive: no upload is in progress on the event
\* loop, and j is an id upload has issued.  dl is an input of the request
\* only when get_job goes past the registry.
Request(j, dl) ==
    /\ up = "idle"
    /\ j \in Uploaded
    /\ (dl \/ jobs[j] = NoJob)

\* ------------------------------------------------------------------ Init
\* the job store after construction
JobStoreInit ==
    /\ gcs \in BOOLEAN
    /\ jobs = [j \in Ids |-> NoJob]
    /\ disk = [j \in Ids |-> NoDir]
    /\ blob = [j \in Ids |-> [state |-> NoState, video |-> FALSE]]
    /\ bg = [j \in Ids |-> NoBg]
    /\ up = "idle"
    /\ nextId = 1
    /\ clock = 0

\* none of the later calls is being followed
LaterIdle ==
    db = NoCall /\ vc = NoCall /\ rt = NoCall /\ pl = NoCall /\ ts = NoCall

Init ==
    /\ JobStoreInit
    /\ rw = NoCall /\ tl = NoCall /\ mm = NoCall
    /\ LaterIdle

\* the job store as a call followed on its own leaves it
JobStoreIdle == UNCHANGED <<gcs, jobs, disk, blob, bg, up, nextId, clock>>

\* ---------------------------------------------------------------- upload
\* cleanup_all_jobs: every job directory removed, the registry cleared
CleanupAllDisk(d) == [j \in Ids |-> NoDir]
CleanupAllJobs(js) == [j \in Ids |-> NoJob]

\* upload_video up to the end of cleanup_all_jobs inside create_job
UploadCleanup ==
    /\ up = "idle"
    /\ nextId <= MaxJobs
    /\ disk' = CleanupAllDisk(disk)
    /\ jobs' = CleanupAllJobs(jobs)
    /\ bg' = Orphan(bg, Ids)
    /\ up' = "cleaned"
    /\ UNCHANGED <<aux, gcs, blob, nextId, clock>>

\* the rest of create_job and of upload_video: the job directory, the copy
\* of the source, the blob upload, the registration, the snapshot, then the
\* video info, the preview frame and the scheduling of extract_frames.
\* urlOk: the blob upload of the source succeeds.
\* (When ffprobe or the preview extraction fails the handler answers 500
\* without a job id, so no later request can name that job; that run of the
\* handler is left out.)
UploadCreate(urlOk) ==
    /\ up = "cleaned"
    /\ LET j == nextId
           url == IF gcs /\ urlOk THEN "url" ELSE ""
           job == NewJob(j, url)
           d1 == WriteFile(Mkdir(disk, j), j, "input", Source)
           js1 == Register(jobs, j, job)
           b1 == [blob EXCEPT ![j] = [@ EXCEPT !.video = (url # "")]]
       IN /\ blob' = SaveJobState(b1, js1, j)
          /\ disk' = [d1 EXCEPT ![j] = [@ EXCEPT !.frames = {0}]]
          /\ jobs' = [js1 EXCEPT ![j] =
                        [@ EXCEPT !.video_info = "probed",
                                  !.frame_paths = <<FramePath(j, 0)>>]]
          /\ bg' = [bg EXCEPT ![j] = [pc |-> "scheduled", live |-> FALSE]]
    /\ nextId' = nextId + 1
    /\ up' = "idle"
    /\ UNCHANGED <<aux, gcs, clock>>

\* ------------------------------------------------ background extraction
\* extract_frames up to its first writes: job lookup, stage, progress
BgStart(j) ==
    /\ bg[j].pc = "scheduled"
    /\ IF jobs[j] = NoJob
       THEN /\ bg' = [bg EXCEPT ![j] = [pc |-> "done", live |-> FALSE]]
            /\ jobs' = jobs
       ELSE /\ bg' = [bg EXCEPT ![j] = [pc |-> "running", live |-> TRUE]]
            /\ jobs' = [jobs EXCEPT ![j] =
                          [@ EXCEPT !.stage = "extracting_frames",
                                    !.progress = 5]]
    /\ UNCHANGED <<aux, gcs, disk, blob, up, nextId, clock>>

\* the job as extract_frames leaves it on success and on failure
ExtractedJob(job, j) ==
    [job EXCEPT !.frame_paths = SortedFrames(j, 0..(NFrames - 1)),
                !.video_info = "extracted",
                !.progress = 15]
ExtractFailedJob(job) ==
    [job EXCEPT !.stage = "failed", !.error = "extract"]

\* FrameExtractor.extract_frames and the rest of extract_frames.
\* The thread writes the job object it looked up: the writes reach the
\* registry only while that object is still the registered one (live).
BgExtract(j, ok) ==
    /\ bg[j].pc = "running"
    /\ LET d1 == Mkdir(disk, j)
           good == ok /\ "input" \in DOMAIN d1[j].files
       IN /\ disk' = IF good
                     THEN [d1 EXCEPT ![j] =
                             [@ EXCEPT !.frames = 0..(NFrames - 1)]]
                     ELSE d1
          /\ jobs' = IF ~bg[j].live THEN jobs
                     ELSE IF good
                     THEN [jobs EXCEPT ![j] = ExtractedJob(@, j)]
                     ELSE [jobs EXCEPT ![j] = ExtractFailedJob(@)]
    /\ bg' = [bg EXCEPT ![j] = [pc |-> "done", live |-> FALSE]]
    /\ UNCHANGED <<aux, gcs, blob, up, nextId, clock>>

\* ------------------------------------------------------- process restart
\* The process is restarted: the registry and the worker threads are lost.
\* wipe: the new instance has a fresh local disk.
Restart(wipe) ==
    /\ up = "idle"
    /\ jobs' = [j \in Ids |-> NoJob]
    /\ bg' = [j \in Ids |-> NoBg]
    /\ disk' = IF wipe THEN [j \in Ids |-> NoDir] ELSE disk
    /\ UNCHANGED <<aux, gcs, blob, up, nextId, clock>>

\* ------------------------------------------------------- handler return
\* what a handler leaves behind when it wrote no edit result: the registry
\* and the disk as get_job and the operation left them
Quiet(js, d) ==
    /\ jobs' = js
    /\ disk' = d
    /\ UNCHANGED <<aux, gcs, blob, bg, up, nextId, clock>>

\* HTTPException(404, "Job not found")
NotFound(g) == Quiet(g.jobs, g.disk)

\* what an edit that wrote its result leaves behind
Edited(js, d) ==
    /\ clock < MaxEdits
    /\ jobs' = js
    /\ disk' = d
    /\ clock' = clock + 1
    /\ UNCHANGED <<aux, gcs, blob, bg, up, nextId>>

\* ---------------------------------------------------------------- status
\* what get_job_status answers
StatusResponse(j, dl) ==
    LET g == GetJob(j, dl)
    IN IF g.job = NoJob
       THEN [status |-> 404, stage |-> "", error |-> ""]
       ELSE [status |-> 200, stage |-> g.job.stage, error |-> g.job.error]

\* get_job_status: only its get_job call changes state
GetStatus(j, dl) ==
    /\ Request(j, dl)
    /\ LET g == GetJob(j, dl)
       IN IF g.job = NoJob THEN NotFound(g)
          ELSE Quiet(g.jobs, g.disk)

\* -------------------------------------------------------------- download
\* the file download_video serves: the output if it exists, else the source
ServedPath(d, j, job) ==
    IF Exists(d, j, job.output_path) THEN job.output_path
    ELSE IF Exists(d, j, job.video_path) THEN job.video_path
    ELSE NoPath

\* what download_video answers: 404 for an unknown job or when neither file
\* exists, else the served file
DownloadResponse(j, dl) ==
    LET g == GetJob(j, dl)
    IN IF g.job = NoJob THEN [status |-> 404, file |-> NoPath]
       ELSE IF ServedPath(g.disk, j, g.job) = NoPath
       THEN [status |-> 404, file |-> NoPath]
       ELSE [status |-> 200, file |-> ServedPath(g.disk, j, g.job)]

\* download_video (the first of the two routes registered on the path):
\* only its get_job call changes state
Download(j, dl) ==
    /\ Request(j, dl)
    /\ LET g == GetJob(j, dl)
       IN IF g.job = NoJob THEN NotFound(g)
          ELSE Quiet(g.jobs, g.disk)

\* ---------------------------------------------------------------- delete
\* cleanup_job (the second definition in the class, which is the one in
\* effect): the directory removed, the job dropped from the registry
CleanupJobDisk(d, j) == [d EXCEPT ![j] = NoDir]
CleanupJobJobs(js, j) == [js EXCEPT ![j] = NoJob]

\* delete_job
DeleteJob(j, dl) ==
    /\ Request(j, dl)
    /\ LET g == GetJob(j, dl)
       IN IF g.job = NoJob
          THEN /\ NotFound(g)
          ELSE /\ jobs' = CleanupJobJobs(g.jobs, j)
               /\ disk' = CleanupJobDisk(g.disk, j)
               /\ bg' = Orphan(bg, {j})
               /\ UNCHANGED <<aux, gcs, blob, up, nextId, clock>>

\* ------------------------------------------------------ edit operations
\* what the file at a path of the job directory holds
Content(d, j, p) == d[j].files[p.name]

\* the result of an edit applied to the file at path in, written as name
WriteEdit(d, j, in, name) ==
    WriteFile(d, j, name,
              [depth |-> Content(d, j, in).depth + 1, seq |-> clock + 1])

\* "Use previous output if exists (for chaining effects)"
ChainSource(d, j, job) ==
    IF Exists(d, j, job.output_path) THEN job.output_path ELSE job.video_path

\* the video censor_audio hands to apply_beeps / apply_dubs
CensorSource(d, j, job) == job.video_path

\* the video replace_with_runway processes when no time window is given
RunwayFullSource(d, j, job) == job.video_path

\* the video replace_with_vace hands to the inpainting engine
VaceSource(d, j, job) == job.video_path

HasVideo(d, j, job) == Exists(d, j, job.video_path)

\* job.output_path = output_path, the last statement of an edit
SetOutput(js, j, job, name) ==
    [js EXCEPT ![j] = [job EXCEPT !.output_path = JobPath(j, name)]]

\* segment_video_with_sam3: the job after its first writes, on success and
\* on failure
SegmentingJob(job) ==
    [job EXCEPT !.stage = "video_segmenting", !.progress = 10]
SegmentedJob(job, j) ==
    [job EXCEPT !.segmented_video_path = JobPath(j, "segmented_sam3.mp4"),
                !.stage = "completed", !.progress = 100]
SegmentFailedJob(job) ==
    [job EXCEPT !.stage = "failed", !.error = "sam3"]

\* the prompts of the blur requests, and str.lower() on them
Prompts == {"Face", "face", "logo"}
Lower(p) == CASE p = "Face" -> "face" [] OTHER -> p

\* prompt_hash: the first eight digits of the md5 of the lowercased prompt,
\* taken as free of collisions, so the lowercased text stands for its digest
\* (a variant that digests the prompt as typed)
PromptHashCased(p) == p
PromptHash(p) == Lower(p)

\* prompt_slug: the lowercased prompt, every character that is not
\* alphanumeric replaced by "_", cut to twenty characters (the prompts here
\* are short and alphanumeric)
PromptSlug(p) == Lower(p)

\* cache_filename of the time-ranged path (clip) and of the full-video path
CacheName(p, clip) ==
    "mask_" \o PromptSlug(p) \o "_" \o PromptHash(p)
            \o (IF clip THEN "_clip.mp4" ELSE ".mp4")

\* the time windows (start_time, end_time) of the requests; none for a
\* request on the whole video
Windows == {<<0, 1>>, <<2, 3>>}
NoWindow == <<>>

\* a mask file: the video that was segmented, the prompt and the window
Mask(src, p, w) == [of |-> src, prompt |-> p, window |-> w]

\* cached_mask_path.exists()
Cached(d, j, name) == name \in DOMAIN d[j].files

\* the cache is never found
SegRequestsAlways(d, j, name) == 1

\* the requests one blur_object call that reaches its mask step sends to
\* the segmentation service
SegRequests(d, j, name) == IF Cached(d, j, name) THEN 0 ELSE 1

\* the disk after the mask step of the time-ranged path: a fresh mask of
\* the clip cut from src is stored under the cache name
ClipMaskStep(d, j, src, p, w) ==
    IF SegRequests(d, j, CacheName(p, TRUE)) = 0 THEN d
    ELSE WriteFile(d, j, CacheName(p, TRUE), Mask(Content(d, j, src), p, w))

\* blur_object with start_time and end_time: clip, mask, effect, stitch.
\* outcome: "ok", "clip_fail" (extract_clip or the segmentation of the clip
\* fails), "fx_fail" (the effect or insert_segment fails).
BlurClip(j, effect, p, w, outcome, dl) ==
    /\ Request(j, dl)
    /\ LET g == GetJob(j, dl)
           job == g.job
           src == ChainSource(g.disk, j, job)
           out == "output_" \o effect \o "_" \o PromptHash(p)
                            \o "_stitched.mp4"
           dm == ClipMaskStep(g.disk, j, src, p, w)
       IN IF job = NoJob THEN NotFound(g)
          ELSE IF ~HasVideo(g.disk, j, job)
          THEN Quiet(g.jobs, g.disk)
          ELSE CASE outcome = "clip_fail" ->
                      Quiet(g.jobs, g.disk)
                 [] outcome = "fx_fail" ->
                      Quiet(g.jobs, dm)
                 [] outcome = "ok" ->
                      Edited(SetOutput(g.jobs, j, job, out),
                             WriteEdit(dm, j, src, out))

\* blur_object without a time window: cached mask or
\* segment_video_with_sam3 (which segments the job's source video), then
\* the effect on the chained input.
\* outcome: "ok", "seg_fail", "fx_fail".  The effect tool refuses to write
\* the file it reads.
BlurFull(j, effect, p, outcome, dl) ==
    /\ Request(j, dl)
    /\ LET g == GetJob(j, dl)
           job == g.job
           out == "output_" \o effect \o "_" \o PromptHash(p) \o ".mp4"
           cached == SegRequests(g.disk, j, CacheName(p, FALSE)) = 0
           \* after the mask step succeeded
           jm == IF cached THEN job ELSE SegmentedJob(SegmentingJob(job), j)
           dm == IF cached THEN g.disk
                 ELSE WriteFile(g.disk, j, CacheName(p, FALSE),
                                Mask(Content(g.disk, j, job.video_path),
                                     p, NoWindow))
           in == ChainSource(dm, j, jm)
       IN IF job = NoJob THEN NotFound(g)
          ELSE IF ~HasVideo(g.disk, j, job)
          THEN Quiet(g.jobs, g.disk)
          ELSE CASE outcome = "seg_fail" ->
                      /\ ~cached
                      /\ Quiet([g.jobs EXCEPT ![j] =
                                  SegmentFailedJob(SegmentingJob(job))],
                               g.disk)
                 [] outcome = "fx_fail" ->
                      Quiet([g.jobs EXCEPT ![j] = jm], dm)
                 [] outcome = "ok" ->
                      /\ in # JobPath(j, out)
                      /\ Edited(SetOutput(g.jobs, j, jm, out),
                                WriteEdit(dm, j, in, out))

\* replace_with_runway.  smart: start_time and end_time are given.
\* outcome: "ok", "fail" (a step fails).  Without a public URL of the video
\* the handler raises its 400 inside the try block, whose handler for
\* Exception answers 500.
ReplaceWithRunway(j, smart, outcome, dl) ==
    /\ Request(j, dl)
    /\ LET g == GetJob(j, dl)
           job == g.job
           in == IF smart THEN ChainSource(g.disk, j, job)
                 ELSE RunwayFullSource(g.disk, j, job)
           hasUrl == IF smart THEN gcs ELSE job.gcs_url # ""
           out == IF smart THEN "final_runway_output.mp4"
                  ELSE "runway_final_stitched.mp4"
       IN IF job = NoJob THEN NotFound(g)
          ELSE IF job.video_path = NoPath
          THEN Quiet(g.jobs, g.disk)
          ELSE IF Exists(g.disk, j, in) /\ ~hasUrl
          THEN Quiet(g.jobs, g.disk)
          ELSE CASE outcome = "fail" ->
                      Quiet(g.jobs, g.disk)
                 [] outcome = "ok" ->
                      /\ Exists(g.disk, j, in)
                      /\ Edited(SetOutput(g.jobs, j, job, out),
                                WriteEdit(g.disk, j, in, out))

\* censor_audio.  mode: "beep" or "dub".
\* outcome: "ok", "none" (no profanity found), "fail" (a step fails).
CensorAudio(j, mode, outcome, dl) ==
    /\ Request(j, dl)
    /\ LET g == GetJob(j, dl)
           job == g.job
           in == CensorSource(g.disk, j, job)
           out == IF mode = "beep" THEN "censored_beep.mp4"
                  ELSE "censored_dubbed.mp4"
       IN IF job = NoJob THEN NotFound(g)
          ELSE IF ~HasVideo(g.disk, j, job)
          THEN Quiet(g.jobs, g.disk)
          ELSE CASE outcome = "fail" ->
                      Quiet(g.jobs, g.disk)
                 [] outcome = "none" ->
                      Quiet(g.jobs, g.disk)
                 [] outcome = "ok" ->
                      Edited(SetOutput(g.jobs, j, job, out),
                             WriteEdit(g.disk, j, in, out))

\* the segment-video-sam3 endpoint over segment_video_with_sam3
SegmentVideoSam3(j, ok, dl) ==
    /\ Request(j, dl)
    /\ LET g == GetJob(j, dl)
           job == g.job
       IN IF job = NoJob THEN NotFound(g)
          ELSE IF ~HasVideo(g.disk, j, job)
          THEN Quiet(g.jobs, g.disk)
          ELSE IF ok
          THEN Quiet([g.jobs EXCEPT ![j] = SegmentedJob(SegmentingJob(job), j)],
                     g.disk)
          ELSE Quiet([g.jobs EXCEPT ![j] =
                        SegmentFailedJob(SegmentingJob(job))],
                     g.disk)

\* replace_with_vace: the job after its first writes, on success and on
\* failure
VaceStartedJob(job) == [job EXCEPT !.stage = "inpainting", !.progress = 10]
VaceDoneJob(job, j) ==
    [job EXCEPT !.output_path = JobPath(j, "replaced_vace.mp4"),
                !.stage = "completed", !.progress = 100]
\* (a variant that assigns the output path before the inpainting call)
VaceFailedJobEarlyOutput(job, j) ==
    [job EXCEPT !.output_path = JobPath(j, "replaced_vace.mp4"),
                !.stage = "failed", !.error = "vace"]
VaceFailedJob(job, j) ==
    [job EXCEPT !.stage = "failed", !.error = "vace"]

\* the replace-with-vace endpoint over VideoPipeline.replace_with_vace
ReplaceWithVace(j, ok, dl) ==
    /\ Request(j, dl)
    /\ LET g == GetJob(j, dl)
           job == g.job
           in == VaceSource(g.disk, j, job)
       IN IF job = NoJob THEN NotFound(g)
          ELSE IF job.segmented_video_path = NoPath
          THEN Quiet(g.jobs, g.disk)
          ELSE IF ok /\ Exists(g.disk, j, in)
          THEN Edited([g.jobs EXCEPT ![j] =
                         VaceDoneJob(VaceStartedJob(job), j)],
                      WriteEdit(g.disk, j, in, "replaced_vace.mp4"))
          ELSE Quiet([g.jobs EXCEPT ![j] =
                        VaceFailedJob(VaceStartedJob(job), j)],
                     g.disk)

Effects == {"blur", "pixelate"}

\* the prompt and the window of the blur requests where one of each is
\* enough
OnePrompt == "face"
OneWindow == <<0, 1>>

\* the first upload of a run
FirstUpload == nextId = 1 /\ UploadCleanup

\* one uploaded job and every operation on it
Next ==
    \/ FirstUpload
    \/ \E urlOk \in BOOLEAN : UploadCreate(urlOk)
    \/ \E j \in Ids : BgStart(j)
    \/ \E j \in Ids, ok \in BOOLEAN : BgExtract(j, ok)
    \/ \E wipe \in BOOLEAN : Restart(wipe)
    \/ \E j \in Ids, dl \in BOOLEAN : GetStatus(j, dl)
    \/ \E j \in Ids, dl \in BOOLEAN : Download(j, dl)
    \/ \E j \in Ids, dl \in BOOLEAN : DeleteJob(j, dl)
    \/ \E j \in Ids, e \in Effects, o \in {"ok", "clip_fail", "fx_fail"},
          dl \in BOOLEAN : BlurClip(j, e, OnePrompt, OneWindow, o, dl)
    \/ \E j \in Ids, e \in Effects, o \in {"ok", "seg_fail", "fx_fail"},
          dl \in BOOLEAN : BlurFull(j, e, OnePrompt, o, dl)
    \/ \E j \in Ids, smart \in BOOLEAN, o \in {"ok", "fail"},
          dl \in BOOLEAN : ReplaceWithRunway(j, smart, o, dl)
    \/ \E j \in Ids, m \in {"beep", "dub"}, o \in {"ok", "none", "fail"},
          dl \in BOOLEAN : CensorAudio(j, m, o, dl)
    \/ \E j \in Ids, ok \in BOOLEAN, dl \in BOOLEAN : SegmentVideoSam3(j, ok, dl)
    \/ \E j \in Ids, ok \in BOOLEAN, dl \in BOOLEAN : ReplaceWithVace(j, ok, dl)

Spec == Init /\ [][Next]_vars

\* successive uploads, the store requests and one kind of edit
StoreNext ==
    \/ UploadCleanup
    \/ \E urlOk \in BOOLEAN : UploadCreate(urlOk)
    \/ \E j \in Ids : BgStart(j)
    \/ \E j \in Ids, ok \in BOOLEAN : BgExtract(j, ok)
    \/ \E wipe \in BOOLEAN : Restart(wipe)
    \/ \E j \in Ids, dl \in BOOLEAN : GetStatus(j, dl)
    \/ \E j \in Ids, dl \in BOOLEAN : Download(j, dl)
    \/ \E j \in Ids, dl \in BOOLEAN : DeleteJob(j, dl)
    \/ \E j \in Ids, o \in {"ok", "fail"}, dl \in BOOLEAN :
          CensorAudio(j, "beep", o, dl)

StoreSpec == Init /\ [][StoreNext]_vars

\* ------------------------------------------------------------- chaining
\* a request to blur_object, replace_with_runway or censor_audio for job j
EditCall(j, dl) ==
    \/ \E e \in Effects, o \in {"ok", "clip_fail", "fx_fail"} :
          BlurClip(j, e, OnePrompt, OneWindow, o, dl)
    \/ \E e \in Effects, o \in {"ok", "seg_fail", "fx_fail"} :
          BlurFull(j, e, OnePrompt, o, dl)
    \/ \E smart \in BOOLEAN, o \in {"ok", "fail"} :
          ReplaceWithRunway(j, smart, o, dl)
    \/ \E m \in {"beep", "dub"}, o \in {"ok", "none", "fail"} :
          CensorAudio(j, m, o, dl)

\* C1: every blur/pixelate, generative replace, beep or dub that writes its
\* result built it from the job's current output_path when that file
\* exists and from the source video only when it does not: the result is
\* one edit deeper than the file ChainSource selects at the call.
C1_EditTakesCurrentOutput ==
    [][\A j \in Ids, dl \in BOOLEAN :
         (EditCall(j, dl) /\ clock' = clock + 1) =>
            LET g == GetJob(j, dl)
                in == ChainSource(g.disk, j, g.job)
            IN Content(disk', j, jobs'[j].output_path).depth
                 = Content(g.disk, j, in).depth + 1]_vars

\* the write order of the edit result that get_job(j).output_path names,
\* 0 when get_job finds no job or the path names no file
OutputSeq(j) ==
    LET g == GetJob(j, TRUE)
    IN IF g.job = NoJob \/ ~Exists(g.disk, j, g.job.output_path) THEN 0
       ELSE Content(g.disk, j, g.job.output_path).seq

\* C2: once the output_path of job j names the result of a successful
\* edit, no step other than the deletion of j makes it name the source or
\* an older result while that result is still on disk: not a further
\* operation, a status or download call, or a recovery of the job from the
\* local directory or the blob store.
C2_OutputNeverRegresses ==
    [][\A j \in Ids :
         (/\ OutputSeq(j) >= 1
          /\ ~(\E dl \in BOOLEAN : DeleteJob(j, dl))
          /\ Exists(disk', j, GetJob(j, TRUE).job.output_path))
         => OutputSeq(j)' >= OutputSeq(j)]_vars

\* ------------------------------------------------------ failed operations
\* a request to any of the edit endpoints for job j
AnyEditCall(j, dl) ==
    \/ EditCall(j, dl)
    \/ \E ok \in BOOLEAN : SegmentVideoSam3(j, ok, dl)
    \/ \E ok \in BOOLEAN : ReplaceWithVace(j, ok, dl)

\* the step changes what output_path names or what download serves for the
\* job that get_job(j) yields at its start
OutputMoved(j, dl) ==
    LET g == GetJob(j, dl)
    IN /\ g.job # NoJob
       /\ \/ jobs'[j] = NoJob
          \/ jobs'[j].output_path # g.job.output_path
          \/ ServedPath(disk', j, jobs'[j]) # ServedPath(g.disk, j, g.job)

FailedEditCall(j, dl) ==
    LET g == GetJob(j, dl)
    IN /\ g.job # NoJob
       /\ HasVideo(g.disk, j, g.job)
       /\ \/ \E e \in Effects, o \in {"clip_fail", "fx_fail"} :
                BlurClip(j, e, OnePrompt, OneWindow, o, dl)
          \/ \E e \in Effects, o \in {"seg_fail", "fx_fail"} :
                BlurFull(j, e, OnePrompt, o, dl)
          \/ \E smart \in BOOLEAN : ReplaceWithRunway(j, smart, "fail", dl)
          \/ \E m \in {"beep", "dub"} : CensorAudio(j, m, "fail", dl)
          \/ SegmentVideoSam3(j, FALSE, dl)

\* C4: whenever a blur/pixelate, generative replace, beep, dub or
\* segmentation fails, the job ends with stage = FAILED and error set.
C4_FailedEditMarksJob ==
    [][\A j \in Ids, dl \in BOOLEAN :
         FailedEditCall(j, dl) =>
            /\ jobs'[j].stage = "failed"
            /\ jobs'[j].error # ""]_vars

\* ---------------------------------------------------------- concurrency
\* the fields of a job that its operations write
Written(job) ==
    <<job.stage, job.progress, job.error, job.frame_paths, job.output_path>>

\* C5: at most one operation mutates a job at a time: between the first
\* writes of the background extract_frames of job j and its last ones, no
\* other operation writes the stage, progress, error, frame_paths or
\* output_path of j.
C5_OneMutatorPerJob ==
    [][\A j \in Ids :
         (/\ bg[j].pc = "running" /\ bg[j].live
          /\ bg'[j].pc = "running" /\ bg'[j].live
          /\ jobs[j] # NoJob /\ jobs'[j] # NoJob)
         => Written(jobs'[j]) = Written(jobs[j])]_vars

\* ---------------------------------------------------------- persistence
\* the output file name a snapshot carries, "" when it carries none
SnapshotOutput(data) ==
    IF "output_path" \in DOMAIN data THEN PathName(data.output_path) ELSE ""

\* C6: with the blob store configured, when an operation that changed the
\* stage or the output_path of a registered job has returned, the snapshot
\* jobs/<id>/state.json carries the new stage and the new output.
C6_SnapshotFollowsJob ==
    [][\A j \in Ids :
         (/\ gcs
          /\ jobs[j] # NoJob /\ jobs'[j] # NoJob
          /\ bg'[j].pc # "running"
          /\ \/ jobs'[j].stage # jobs[j].stage
             \/ jobs'[j].output_path # jobs[j].output_path)
         => /\ blob'[j].state # NoState
            /\ blob'[j].state.stage = jobs'[j].stage
            /\ SnapshotOutput(blob'[j].state)
                 = PathName(jobs'[j].output_path)]_vars

\* the file names of a list of paths
Names(paths) == [i \in DOMAIN paths |-> PathName(paths[i])]

\* C7: for every job the program holds, restoring the snapshot that
\* _save_job_state writes of it yields a job equal to it on the job id,
\* stage, progress, video info, source URL, output file name, frame file
\* names and error, with the paths under the local job directory.
C7_RoundTrip ==
    \A j \in Ids :
        jobs[j] # NoJob =>
            LET job == jobs[j]
                r == RestoredJob(j, StateDict(job))
            IN /\ r.job_id = job.job_id
               /\ r.stage = job.stage
               /\ r.progress = job.progress
               /\ r.video_info = job.video_info
               /\ r.gcs_url = job.gcs_url
               /\ r.error = job.error
               /\ Names(r.frame_paths) = Names(job.frame_paths)
               /\ \A i \in DOMAIN r.frame_paths :
                     r.frame_paths[i].dir = FramesDir(j)
               /\ PathName(r.output_path) = PathName(job.output_path)
               /\ r.output_path.dir = JobDir(j)

\* ------------------------------------------------------------- recovery
\* the local directory of job j yields the job: it exists and holds input.*
DiskYields(j) == disk[j] # NoDir /\ "input" \in DOMAIN disk[j].files

Prefix(s, t) ==
    Len(s) <= Len(t) /\ \A i \in 1..Len(s) : s[i] = t[i]

\* C8: the get_job call of a status or download request consults the
\* registry, then the local directory, then the blob store, in that order;
\* it consults the directory only when the registry has no such job and
\* the blob store only when the directory does not yield it either; a job
\* recovered from the directory or the blob store is in the registry when
\* the request returns, so that the next get_job finds it in memory.
C8_GetOrder ==
    [][\A j \in Ids, dl \in BOOLEAN :
         (GetStatus(j, dl) \/ Download(j, dl)) =>
            LET g == GetJob(j, dl)
            IN /\ Prefix(g.consulted, <<"memory", "disk", "blob">>)
               /\ Len(g.consulted) >= 1
               /\ (Len(g.consulted) >= 2 => jobs[j] = NoJob)
               /\ (Len(g.consulted) >= 3 => ~DiskYields(j))
               /\ (g.found = "memory" <=> jobs[j] # NoJob)
               /\ (g.found = "disk" => DiskYields(j))
               /\ (g.found \in {"disk", "blob"} =>
                     /\ jobs'[j] = g.job
                     /\ GetJob(j, dl)'.found = "memory")]_vars

\* after a restart onto a fresh disk, a job has been recovered from its
\* snapshot in the blob store and is registered
C8_Witness ==
    \E j \in Ids :
        /\ jobs[j] # NoJob
        /\ bg[j] = NoBg
        /\ jobs[j].gcs_url # ""
        /\ jobs[j].stage = "initialized"

\* -------------------------------------------------------------- cleanup
\* C9: when upload's create_job returns, no directory of a prior job is
\* left on disk and the registry holds exactly the new job.
C9_CreateLeavesOnlyNewJob ==
    [][(up = "cleaned" /\ up' = "idle") =>
          /\ \A k \in Ids : k # nextId => disk'[k] = NoDir
          /\ \A k \in Ids : jobs'[k] # NoJob <=> k = nextId]_vars

\* the step destroys job j: a delete request that found it, or the return
\* of a later upload, whose cleanup_all_jobs removed it
Destroys(j) ==
    \/ \E dl \in BOOLEAN : DeleteJob(j, dl) /\ GetJob(j, dl).job # NoJob
    \/ up = "cleaned" /\ up' = "idle" /\ j < nextId

\* C10: once job j has been deleted, or removed by the cleanup of a later
\* upload, a status or download request for j is answered 404: the job is
\* not rebuilt from its snapshot.
C10_DestroyedStaysGone ==
    [][\A j \in Ids :
         Destroys(j) =>
            \A dl \in BOOLEAN :
                /\ StatusResponse(j, dl)'.status = 404
                /\ DownloadResponse(j, dl)'.status = 404]_vars

\* ---------------------------------------------------------- stage, error
\* a request to any edit endpoint for job j that returns successfully: the
\* edit wrote its result, or the segmentation endpoint ran to its end
SucceededCall(j, dl) ==
    \/ AnyEditCall(j, dl) /\ clock' = clock + 1
    \/ /\ SegmentVideoSam3(j, TRUE, dl)
       /\ GetJob(j, dl).job # NoJob
       /\ HasVideo(GetJob(j, dl).disk, j, GetJob(j, dl).job)

\* C11: every operation call clears a FAILED stage left by an earlier
\* operation: no operation runs to success and leaves stage = FAILED.
C11_SuccessClearsFailed ==
    [][\A j \in Ids, dl \in BOOLEAN :
         SucceededCall(j, dl) => jobs'[j].stage # "failed"]_vars

\* C12: every blur/pixelate, generative replace, beep or dub that returns
\* successfully leaves the job's stage = COMPLETED, whichever path it took.
C12_SuccessCompletes ==
    [][\A j \in Ids, dl \in BOOLEAN :
         (EditCall(j, dl) /\ clock' = clock + 1) =>
            jobs'[j].stage = "completed"]_vars

\* C13: after an operation has succeeded, get_job_status reports no error
\* left over from an earlier failed operation.
C13_StatusShowsNoStaleError ==
    [][\A j \in Ids, dl \in BOOLEAN :
         SucceededCall(j, dl) =>
            \A d2 \in BOOLEAN : StatusResponse(j, d2)'.error = ""]_vars

\* ------------------------------------------------------------ mask cache
\* one uploaded job and the blur requests on it, over all prompts and
\* windows
MaskNext ==
    \/ FirstUpload
    \/ \E urlOk \in BOOLEAN : UploadCreate(urlOk)
    \/ \E j \in Ids, dl \in BOOLEAN : DeleteJob(j, dl)
    \/ \E j \in Ids, p \in Prompts, w \in Windows,
          o \in {"ok", "clip_fail", "fx_fail"}, dl \in BOOLEAN :
          BlurClip(j, "blur", p, w, o, dl)
    \/ \E j \in Ids, p \in Prompts,
          o \in {"ok", "seg_fail", "fx_fail"}, dl \in BOOLEAN :
          BlurFull(j, "pixelate", p, o, dl)

MaskSpec == Init /\ [][MaskNext]_vars

\* a blur request for job j with prompt p and window w (NoWindow: on the
\* whole video) that reaches its mask step and gets past it
BlurPastMask(j, p, w, dl) ==
    /\ GetJob(j, dl).job # NoJob
    /\ HasVideo(GetJob(j, dl).disk, j, GetJob(j, dl).job)
    /\ IF w = NoWindow
       THEN \E e \in Effects, o \in {"ok", "fx_fail"} :
               BlurFull(j, e, p, o, dl)
       ELSE \E e \in Effects, o \in {"ok", "fx_fail"} :
               BlurClip(j, e, p, w, o, dl)

\* the masks in the directory of job j that an earlier request stored for a
\* prompt equal to p up to case and for the window w
StoredMasks(d, j, p, w) ==
    {n \in DOMAIN d[j].files :
        /\ "prompt" \in DOMAIN d[j].files[n]
        /\ Lower(d[j].files[n].prompt) = Lower(p)
        /\ d[j].files[n].window = w}

\* C14: a blur/pixelate request on a job whose directory holds the mask
\* that an earlier request with the same prompt (up to case) and the same
\* window stored sends no segmentation request and uses that very file,
\* which it leaves as it was: no step that finds such a mask and sends a
\* request, looks under another name or rewrites the file is a step of
\* blur_object past its mask step.
C14_SecondUsesStoredMask ==
    [][\A j \in Ids, dl \in BOOLEAN :
         LET g == GetJob(j, dl)
         IN (g.job # NoJob /\ g.disk[j] # NoDir) =>
            \A p \in Prompts, w \in Windows \cup {NoWindow} :
               LET name == CacheName(p, w # NoWindow)
                   stored == StoredMasks(g.disk, j, p, w)
               IN (/\ stored # {}
                   /\ ~(/\ SegRequests(g.disk, j, name) = 0
                        /\ stored = {name}
                        /\ disk'[j] # NoDir
                        /\ Cached(disk', j, name)
                        /\ disk'[j].files[name] = g.disk[j].files[name]))
                  => ~BlurPastMask(j, p, w, dl)]_vars

\* two blurs with the prompt "face" up to case have been written one after
\* the other on windows of the video, and the directory holds the one mask
\* of the clip, stored under the prompt "Face"
C14_Witness ==
    \E j \in Ids :
        /\ jobs[j] # NoJob /\ disk[j] # NoDir
        /\ DOMAIN disk[j].files =
              {"input", CacheName("face", TRUE),
               "output_blur_face_stitched.mp4"}
        /\ jobs[j].output_path = JobPath(j, "output_blur_face_stitched.mp4")
        /\ Content(disk, j, jobs[j].output_path).depth = 2
        /\ disk[j].files[CacheName("face", TRUE)].prompt = "Face"

\* C15: a blur/pixelate request reuses a cached mask only when the mask was
\* computed for the video the request works on, for its prompt (up to case)
\* and for its window.
C15_ReuseOnlyForSameKey ==
    [][\A j \in Ids, dl \in BOOLEAN, p \in Prompts,
          w \in Windows \cup {NoWindow} :
         LET g == GetJob(j, dl)
             name == CacheName(p, w # NoWindow)
         IN (/\ BlurPastMask(j, p, w, dl)
             /\ SegRequests(g.disk, j, name) = 0)
            => LET used == g.disk[j].files[name]
                   src == ChainSource(g.disk, j, g.job)
               IN /\ Lower(used.prompt) = Lower(p)
                  /\ used.window = w
                  /\ used.of = Content(g.disk, j, src)]_vars

\* -------------------------------------------- process_runway_with_chunking
\* Time is counted in slots of half a second, the finest step the handlers
\* take.  A video is the sequence of its slots: k is slot k of the video the
\* request started from, -k the same slot after a backend or an effect has
\* processed it, 0 a slot the backend produced beyond its input.
PerSecond == 2
MaxDuration == 14    \* the longest duration a request asks for, in seconds
MaxOverrun == 1      \* slots a backend may produce beyond those asked for

SafeSeconds == 10    \* "if total_duration <= 10"
ChunkSeconds == 5    \* "chunk_len = min(5.0, remaining)"
ReqSeconds == 5      \* "req_seconds = 5"

\* `duration: int = Form(5)`
Durations == 1..MaxDuration

Min(a, b) == IF a <= b THEN a ELSE b
Max(a, b) == IF a >= b THEN a ELSE b
Abs(a) == IF a >= 0 THEN a ELSE -a

Video(n) == [k \in 1..n |-> k]

\* FrameExtractor.extract_clip: the slots from max(0, start - buffer) to
\* min(duration, end + buffer); ffmpeg fails on a length that is not
\* positive
ExtractClip(v, start, end, buffer) ==
    LET buffered_start == Max(0, start - buffer)
        buffered_end == Min(Len(v), end + buffer)
        clip_duration == buffered_end - buffered_start
    IN IF clip_duration <= 0 THEN [ok |-> FALSE, clip |-> <<>>]
       ELSE [ok |-> TRUE,
             clip |-> SubSeq(v, buffered_start + 1, buffered_end)]

\* what the generative backend returns for a clip when asked for len slots
Generated(clip, len) ==
    [k \in 1..len |-> IF k <= Len(clip) THEN 0 - clip[k] ELSE 0]

\* (a variant that cuts every chunk at the full chunk length)
ChunkLenWhole(remaining) == ChunkSeconds * PerSecond
\* chunk_len = min(5.0, remaining)
ChunkLen(remaining) == Min(ChunkSeconds * PerSecond, remaining)

\* abs(req_seconds - chunk['duration']) > 0.1
NeedsTrim(duration) ==
    10 * Abs(ReqSeconds * PerSecond - duration) > PerSecond

\* the call when it is entered
NewRun(v, total) ==
    [pc |-> "start", video |-> v, total |-> total, current_time |-> 0,
     chunks |-> <<>>, calls |-> <<>>, processed |-> <<>>, out |-> <<>>]

\* total_duration <= 10: one backend call for int(total_duration) seconds,
\* its result returned as it is
RunSingle(over, ok) ==
    /\ rw # NoCall
    /\ rw.pc = "start"
    /\ rw.total <= SafeSeconds * PerSecond
    /\ LET seconds == rw.total \div PerSecond
           call == [start |-> 0, duration |-> rw.total, seconds |-> seconds]
       IN rw' = IF ok
                THEN [rw EXCEPT
                        !.pc = "done",
                        !.calls = <<call>>,
                        !.out = <<[start |-> 0,
                                   frames |-> Generated(rw.video,
                                       seconds * PerSecond + over)]>>]
                ELSE [rw EXCEPT !.pc = "failed", !.calls = <<call>>]
    /\ UNCHANGED <<tl, mm, later>>
    /\ JobStoreIdle

\* one turn of "while current_time < total_duration"
CreateChunk ==
    /\ rw # NoCall
    /\ rw.pc \in {"start", "split"}
    /\ rw.total > SafeSeconds * PerSecond
    /\ rw.current_time < rw.total
    /\ LET chunk_len == ChunkLen(rw.total - rw.current_time)
           x == ExtractClip(rw.video, rw.current_time,
                            rw.current_time + chunk_len, 0)
       IN rw' = IF x.ok
                THEN [rw EXCEPT
                        !.pc = "split",
                        !.chunks = Append(@, [start |-> rw.current_time,
                                              duration |-> chunk_len,
                                              clip |-> x.clip]),
                        !.current_time = @ + chunk_len]
                ELSE [rw EXCEPT !.pc = "failed"]
    /\ UNCHANGED <<tl, mm, later>>
    /\ JobStoreIdle

\* one turn of "for i, chunk in enumerate(chunks)": upload, backend call for
\* req_seconds, trim
ProcessChunk(over, ok) ==
    /\ rw # NoCall
    /\ rw.pc = "split"
    /\ rw.current_time >= rw.total
    /\ Len(rw.processed) < Len(rw.chunks)
    /\ LET chunk == rw.chunks[Len(rw.processed) + 1]
           call == [start |-> chunk.start, duration |-> chunk.duration,
                    seconds |-> ReqSeconds]
           chunk_out == Generated(chunk.clip, ReqSeconds * PerSecond + over)
           final_chunk == IF NeedsTrim(chunk.duration)
                          THEN ExtractClip(chunk_out, 0, chunk.duration, 0).clip
                          ELSE chunk_out
       IN rw' = IF ~gcs THEN [rw EXCEPT !.pc = "failed"]
                ELSE IF ~ok
                THEN [rw EXCEPT !.pc = "failed", !.calls = Append(@, call)]
                ELSE [rw EXCEPT
                        !.calls = Append(@, call),
                        !.processed = Append(@, [start |-> chunk.start,
                                                 frames |-> final_chunk])]
    /\ UNCHANGED <<tl, mm, later>>
    /\ JobStoreIdle

\* concat_clips(processed_chunk_paths, final_output)
ConcatChunks ==
    /\ rw # NoCall
    /\ rw.pc = "split"
    /\ rw.current_time >= rw.total
    /\ Len(rw.processed) = Len(rw.chunks)
    /\ rw' = [rw EXCEPT !.pc = "done", !.out = rw.processed]
    /\ UNCHANGED <<tl, mm, later>>
    /\ JobStoreIdle

\* the call on a video that lasts the requested duration
ChunkInit ==
    /\ JobStoreInit
    /\ rw \in {NewRun(Video(D * PerSecond), D * PerSecond) : D \in Durations}
    /\ tl = NoCall /\ mm = NoCall /\ LaterIdle

ChunkNext ==
    \/ \E over \in 0..MaxOverrun, ok \in BOOLEAN : RunSingle(over, ok)
    \/ CreateChunk
    \/ \E over \in 0..MaxOverrun, ok \in BOOLEAN : ProcessChunk(over, ok)
    \/ ConcatChunks

ChunkSpec == ChunkInit /\ [][ChunkNext]_vars

\* C16: for a requested duration above the safe limit the chunks start at
\* time 0, follow one another without gap or overlap, last at most the
\* chunk length each and end at the requested duration, each holding the
\* slots of the video in its range; the backend is called once per chunk in
\* timeline order and the results are concatenated in that order; 14 s
\* gives three calls, for chunks of 5 s, 5 s and 4 s.
C16_ChunksCoverInOrder ==
    (rw # NoCall /\ rw.total > SafeSeconds * PerSecond) =>
       LET c == rw.chunks
           n == Len(c)
       IN /\ \A i \in 1..n :
                /\ c[i].start = IF i = 1 THEN 0
                                ELSE c[i-1].start + c[i-1].duration
                /\ c[i].duration \in 1..(ChunkSeconds * PerSecond)
                /\ Len(c[i].clip) = c[i].duration
                /\ \A k \in 1..Len(c[i].clip) :
                      c[i].clip[k] = rw.video[c[i].start + k]
          /\ Len(rw.calls) <= n
          /\ \A i \in 1..Len(rw.calls) :
                /\ rw.calls[i].start = c[i].start
                /\ rw.calls[i].duration = c[i].duration
          /\ \A i \in 1..Len(rw.processed) : rw.processed[i].start = c[i].start
          /\ rw.pc = "done" =>
                /\ n >= 1
                /\ c[n].start + c[n].duration = rw.total
                /\ Len(rw.calls) = n
                /\ Len(rw.out) = n
                /\ \A i \in 1..n : rw.out[i].start = c[i].start
                /\ rw.total = 14 * PerSecond =>
                      [i \in 1..n |-> c[i].duration] =
                         <<5 * PerSecond, 5 * PerSecond, 4 * PerSecond>>

\* a request for 14 s has been processed in three calls and stitched
C16_Witness ==
    /\ rw # NoCall
    /\ rw.pc = "done"
    /\ rw.total = 14 * PerSecond
    /\ Len(rw.calls) = 3
    /\ Len(rw.out) = 3

\* C17: every processed chunk handed to the concatenation lasts exactly as
\* long as its source chunk.
C17_ProcessedChunkKeepsDuration ==
    (rw # NoCall /\ rw.total > SafeSeconds * PerSecond) =>
       \A i \in 1..Len(rw.processed) :
          Len(rw.processed[i].frames) = rw.chunks[i].duration

\* ---------------------------------------------------- time-ranged requests
VideoSeconds == 12   \* the length of the video a request works on, seconds

\* start_time and end_time of the requests, here whole seconds
Starts == 0..VideoSeconds

\* the time-ranged request when it is entered: kind is an effect or
\* "runway", s and e are start_time and end_time, seconds is `duration`
NewClip(kind, s, e, seconds) ==
    [pc |-> "start", kind |-> kind, video |-> Video(VideoSeconds * PerSecond),
     s |-> s * PerSecond, e |-> e * PerSecond, seconds |-> seconds,
     lo |-> 0, hi |-> 0, actual_start |-> 0, actual_end |-> 0, out |-> <<>>]

\* apply_blur_with_mask / apply_pixelate_with_mask on a clip: every slot
\* processed, none added or dropped
Effect(clip) == [k \in 1..Len(clip) |-> 0 - clip[k]]

\* the list of clips of concat_clips played one after the other
RECURSIVE Flatten(_)
Flatten(pieces) ==
    IF pieces = <<>> THEN <<>>
    ELSE pieces[1].frames \o Flatten(Tail(pieces))

\* VideoBuilder.insert_segment: the video up to max(0, start - buffer), the
\* segment, the video from end + buffer on when anything is left of it
InsertSegment(v, segment, start, end, buffer) ==
    LET buffered_start == Max(0, start - buffer)
        buffered_end == end + buffer
        before == IF buffered_start > 0
                  THEN SubSeq(v, 1, Min(buffered_start, Len(v)))
                  ELSE <<>>
        after == IF buffered_end < Len(v)
                 THEN SubSeq(v, buffered_end + 1, Len(v))
                 ELSE <<>>
    IN before \o segment \o after

\* blur_object with a time window: extract_clip with a buffer of 1 s, the
\* effect on the clip, insert_segment with the same buffer
TimedBlur(ok) ==
    /\ tl # NoCall
    /\ tl.pc = "start"
    /\ tl.kind \in Effects
    /\ LET x == ExtractClip(tl.video, tl.s, tl.e, PerSecond)
       IN tl' = IF ok /\ x.ok
                THEN [tl EXCEPT
                        !.pc = "done",
                        !.lo = Max(0, tl.s - PerSecond),
                        !.hi = Min(Len(tl.video), tl.e + PerSecond),
                        !.out = InsertSegment(tl.video, Effect(x.clip),
                                              tl.s, tl.e, PerSecond)]
                ELSE [tl EXCEPT !.pc = "failed"]
    /\ UNCHANGED <<rw, mm, later>>
    /\ JobStoreIdle

\* replace_with_runway with a time window, up to its call of
\* process_runway_with_chunking: a window shorter than 1 s is widened, the
\* clip is cut with a buffer of 0.5 s and uploaded
RunwayClip ==
    /\ tl # NoCall
    /\ tl.pc = "start"
    /\ tl.kind = "runway"
    /\ rw = NoCall
    /\ LET clip_duration == tl.e - tl.s
           half_expand == IF clip_duration < PerSecond
                          THEN (PerSecond - clip_duration) \div 2 ELSE 0
           actual_start == Max(0, tl.s - half_expand)
           actual_end == tl.e + half_expand
           buffer == PerSecond \div 2
           x == ExtractClip(tl.video, actual_start, actual_end, buffer)
       IN IF x.ok /\ gcs
          THEN /\ tl' = [tl EXCEPT
                           !.pc = "clipped",
                           !.actual_start = actual_start,
                           !.actual_end = actual_end,
                           !.lo = Max(0, actual_start - buffer),
                           !.hi = Min(Len(tl.video), actual_end + buffer)]
               /\ rw' = NewRun(x.clip, tl.seconds * PerSecond)
          ELSE /\ tl' = [tl EXCEPT !.pc = "failed"]
               /\ rw' = rw
    /\ UNCHANGED <<mm, later>>
    /\ JobStoreIdle

\* replace_with_runway after process_runway_with_chunking has returned:
\* insert_segment with no buffer
RunwayInsert ==
    /\ tl # NoCall
    /\ tl.pc = "clipped"
    /\ rw # NoCall
    /\ rw.pc = "done"
    /\ tl' = [tl EXCEPT
                !.pc = "done",
                !.out = InsertSegment(tl.video, Flatten(rw.out),
                                      tl.actual_start, tl.actual_end, 0)]
    /\ UNCHANGED <<rw, mm, later>>
    /\ JobStoreIdle

ClipInit ==
    /\ JobStoreInit
    /\ tl \in {NewClip(k, s, e, 0) :
                  k \in Effects, s \in Starts, e \in Starts}
              \cup {NewClip("runway", s, e, D) :
                       s \in Starts, e \in Starts, D \in Durations}
    /\ tl.s <= tl.e
    /\ rw = NoCall /\ mm = NoCall /\ LaterIdle

ClipNext ==
    \/ \E ok \in BOOLEAN : TimedBlur(ok)
    \/ RunwayClip
    \/ \E over \in 0..MaxOverrun, ok \in BOOLEAN : RunSingle(over, ok)
    \/ CreateChunk
    \/ \E over \in 0..MaxOverrun, ok \in BOOLEAN : ProcessChunk(over, ok)
    \/ ConcatChunks
    \/ RunwayInsert

ClipSpec == ClipInit /\ [][ClipNext]_vars

\* C18: when a time-ranged request has stitched its result, every slot of
\* the video outside the clip the request cut (the window widened by the
\* buffer) holds in the output what it held in the input, at the same time.
C18_OutsideUnchanged ==
    (tl # NoCall /\ tl.pc = "done") =>
       \A t \in 1..Len(tl.video) :
          (t <= tl.lo \/ t > tl.hi) =>
             /\ t <= Len(tl.out)
             /\ tl.out[t] = tl.video[t]

\* C19: when a time-ranged request has stitched its result, the output
\* lasts as long as the video the request was applied to.
C19_DurationKept ==
    (tl # NoCall /\ tl.pc = "done") => Len(tl.out) = Len(tl.video)

\* ------------------------------------------------- _merge_adjacent_matches
MaxMatches == 3      \* matches in one list
MaxTime == 4         \* the latest time of a match, in slots

\* merge_threshold: float = 0.5
MergeThreshold == PerSecond \div 2

\* a ProfanityMatch; word is the list of the detections it stands for
Match(i, start, end) == [word |-> <<i>>, start_time |-> start, end_time |-> end]

\* sorted(matches, key=lambda m: m.start_time): stable
RECURSIVE InsertByStart(_, _)
InsertByStart(sorted, m) ==
    IF sorted = <<>> THEN <<m>>
    ELSE IF Head(sorted).start_time <= m.start_time
    THEN <<Head(sorted)>> \o InsertByStart(Tail(sorted), m)
    ELSE <<m>> \o sorted

RECURSIVE SortByStart(_)
SortByStart(matches) ==
    IF matches = <<>> THEN <<>>
    ELSE InsertByStart(SortByStart(SubSeq(matches, 1, Len(matches) - 1)),
                       matches[Len(matches)])

\* the merge of next_match into current
Merged(current, next_match) ==
    [word |-> current.word \o next_match.word,
     start_time |-> current.start_time,
     end_time |-> next_match.end_time]

\* the loop "for next_match in sorted_matches[1:]" and the final append
RECURSIVE MergeLoop(_, _, _)
MergeLoop(merged, current, rest) ==
    IF rest = <<>> THEN Append(merged, current)
    ELSE LET next_match == Head(rest)
             gap == next_match.start_time - current.end_time
         IN IF gap <= MergeThreshold
            THEN MergeLoop(merged, Merged(current, next_match), Tail(rest))
            ELSE MergeLoop(Append(merged, current), next_match, Tail(rest))

MergeAdjacentMatches(matches) ==
    IF Len(matches) <= 1 THEN matches
    ELSE LET sorted_matches == SortByStart(matches)
         IN MergeLoop(<<>>, Head(sorted_matches), Tail(sorted_matches))

\* the lists of up to MaxMatches detections with start_time <= end_time
Intervals == {<<a, b>> \in (0..MaxTime) \X (0..MaxTime) : a <= b}
MatchLists ==
    UNION {[1..n -> Intervals] : n \in 0..MaxMatches}

MergeInit ==
    /\ JobStoreInit
    /\ gcs
    /\ \E l \in MatchLists :
          mm = [pc |-> "input",
                matches |-> [i \in DOMAIN l |-> Match(i, l[i][1], l[i][2])],
                merged |-> <<>>]
    /\ rw = NoCall /\ tl = NoCall /\ LaterIdle

MergeAdjacent ==
    /\ mm # NoCall
    /\ mm.pc = "input"
    /\ mm' = [mm EXCEPT !.pc = "merged",
                        !.merged = MergeAdjacentMatches(mm.matches)]
    /\ UNCHANGED <<rw, tl, later>>
    /\ JobStoreIdle

MergeSpec == MergeInit /\ [][MergeAdjacent]_vars

\* C20: whenever matches were merged, the list got shorter and every
\* merged match spans from the least start to the greatest end of the
\* detections it absorbed.
C20_MergeKeepsEnvelope ==
    (mm # NoCall /\ mm.pc = "merged") =>
       \A k \in 1..Len(mm.merged) :
          LET m == mm.merged[k]
              absorbed == {mm.matches[m.word[i]] : i \in 1..Len(m.word)}
          IN Len(m.word) > 1 =>
                /\ Len(mm.merged) < Len(mm.matches)
                /\ \A a \in absorbed :
                      /\ m.start_time <= a.start_time
                      /\ m.end_time >= a.end_time
                /\ \E a \in absorbed : m.start_time = a.start_time
                /\ \E a \in absorbed : m.end_time = a.end_time

\* -------------------------------------------------------- dub clustering
\* the speakers a list of matches may name
Speakers == {"spk_a", "spk_b"}

\* threshold: float = 1.0
ClusterThreshold == PerSecond

\* m.speaker_id of a match: ProfanityMatch, the class of the matches that
\* analyze_profanity builds, declares word, start_time, end_time,
\* replacement, confidence and context and no speaker_id, so the attribute
\* exists only on an object that a caller built otherwise
HasSpeakerId(m) == "speaker_id" \in DOMAIN m

\* a match that names its speaker, as cluster_matches reads it
SpokenMatch(i, start, end, s) ==
    [word |-> <<i>>, start_time |-> start, end_time |-> end, speaker_id |-> s]

\* a fresh current_cluster; the replacement of match i is the token i
NewCluster(m) ==
    [speaker_id |-> m.speaker_id, start_time |-> m.start_time,
     end_time |-> m.end_time, phrase |-> m.word]

\* the loop "for m in sorted_matches[1:]" and the final append; the phrase
\* is the replacement tokens in the order " ".join lays them out
RECURSIVE ClusterLoop(_, _, _)
ClusterLoop(clusters, current_cluster, rest) ==
    IF rest = <<>> THEN Append(clusters, current_cluster)
    ELSE LET m == Head(rest)
             gap == m.start_time - current_cluster.end_time
         IN IF m.speaker_id = current_cluster.speaker_id
               /\ gap < ClusterThreshold
            THEN ClusterLoop(clusters,
                             [current_cluster EXCEPT
                                 !.end_time = m.end_time,
                                 !.phrase = current_cluster.phrase \o m.word],
                             Tail(rest))
            ELSE ClusterLoop(Append(clusters, current_cluster),
                             NewCluster(m), Tail(rest))

\* cluster_matches: an empty list gives no cluster; reading speaker_id of a
\* match that has none raises AttributeError
ClusterMatches(matches) ==
    IF matches = <<>> THEN [raised |-> FALSE, clusters |-> <<>>]
    ELSE LET sorted_matches == SortByStart(matches)
         IN IF \E i \in DOMAIN matches : ~HasSpeakerId(matches[i])
            THEN [raised |-> TRUE, clusters |-> <<>>]
            ELSE [raised |-> FALSE,
                  clusters |-> ClusterLoop(<<>>, NewCluster(Head(sorted_matches)),
                                           Tail(sorted_matches))]

\* the lists handed to cluster_matches: the analyzer's own matches, and
\* lists of matches that name a speaker
SpokenLists ==
    UNION {[1..n -> Intervals \X Speakers] : n \in 1..MaxMatches}

ClusterInit ==
    /\ JobStoreInit
    /\ gcs
    /\ \/ \E l \in MatchLists :
             db = [pc |-> "input", analyzer |-> TRUE,
                   matches |-> [i \in DOMAIN l |-> Match(i, l[i][1], l[i][2])],
                   raised |-> FALSE, clusters |-> <<>>]
       \/ \E l \in SpokenLists :
             db = [pc |-> "input", analyzer |-> FALSE,
                   matches |-> [i \in DOMAIN l |->
                                   SpokenMatch(i, l[i][1][1], l[i][1][2], l[i][2])],
                   raised |-> FALSE, clusters |-> <<>>]
    /\ rw = NoCall /\ tl = NoCall /\ mm = NoCall
    /\ vc = NoCall /\ rt = NoCall /\ pl = NoCall /\ ts = NoCall

Cluster ==
    /\ db # NoCall
    /\ db.pc = "input"
    /\ LET r == ClusterMatches(db.matches)
       IN db' = [db EXCEPT !.pc = "clustered", !.raised = r.raised,
                           !.clusters = r.clusters]
    /\ UNCHANGED <<rw, tl, mm, vc, rt, pl, ts>>
    /\ JobStoreIdle

ClusterSpec == ClusterInit /\ [][Cluster]_vars

\* the cluster that holds match i
ClusterOf(clusters, i) ==
    CHOOSE k \in DOMAIN clusters :
       \E n \in DOMAIN clusters[k].phrase : clusters[k].phrase[n] = i

\* C21: clustering the analyzer's matches gives phrases: every match lies in
\* one phrase; two matches that follow each other in time lie in the same
\* phrase exactly when they have the same speaker and the later starts less
\* than 1.0 s after the earlier ends; a phrase's text is its members'
\* replacements in time order; a phrase spans from the least start to the
\* greatest end of its members.
C21_ClustersAreSpeakerRuns ==
    (db # NoCall /\ db.pc = "clustered" /\ db.matches # <<>>) =>
       /\ ~db.raised
       /\ LET sorted == SortByStart(db.matches)
              c == db.clusters
              members(k) == {db.matches[c[k].phrase[n]] : n \in DOMAIN c[k].phrase}
          IN /\ \A i \in DOMAIN db.matches :
                   \E k \in DOMAIN c : \E n \in DOMAIN c[k].phrase :
                      c[k].phrase[n] = i
             /\ \A n \in 1..(Len(sorted) - 1) :
                   (ClusterOf(c, sorted[n].word[1])
                       = ClusterOf(c, sorted[n + 1].word[1]))
                   <=> /\ sorted[n].speaker_id = sorted[n + 1].speaker_id
                       /\ sorted[n + 1].start_time - sorted[n].end_time
                             < ClusterThreshold
             /\ \A k \in DOMAIN c :
                   /\ \A n \in 1..(Len(c[k].phrase) - 1) :
                         db.matches[c[k].phrase[n]].start_time
                            <= db.matches[c[k].phrase[n + 1]].start_time
                   /\ \A m \in members(k) :
                         /\ c[k].start_time <= m.start_time
                         /\ c[k].end_time >= m.end_time
                   /\ \E m \in members(k) : c[k].start_time = m.start_time
                   /\ \E m \in members(k) : c[k].end_time = m.end_time

\* ------------------------------------------------------ dub with a clone
MaxPhrases == 2      \* phrases of one dub

\* voices at the provider before the dub, and the one the dub creates
OtherVoices == {"voice_1", "voice_2"}
CloneId == "clone"
NoVoice == "None"

\* apply_dubs_with_clone past its two early returns: cloned_voice_id = None
CloneInit ==
    /\ JobStoreInit
    /\ gcs
    /\ \E others \in SUBSET OtherVoices, n \in 0..MaxPhrases, given \in BOOLEAN :
          vc = [pc |-> "sample", voices |-> others, cloned_voice_id |-> NoVoice,
                cloned_voice_ids |-> {}, created |-> {},
                profanity_matches |-> given, phrases |-> n, done |-> 0,
                raised |-> FALSE]
    /\ rw = NoCall /\ tl = NoCall /\ mm = NoCall
    /\ db = NoCall /\ rt = NoCall /\ pl = NoCall /\ ts = NoCall

\* an exception inside the try: control passes to the finally block
Raise(call) == [call EXCEPT !.pc = "finally", !.raised = TRUE]

CloneStep(next) ==
    /\ vc' = next
    /\ UNCHANGED <<rw, tl, mm, db, rt, pl, ts>>
    /\ JobStoreIdle

\* extract_audio_sample: ffmpeg cuts the sample or RuntimeError
ExtractAudioSample(ok) ==
    /\ vc # NoCall /\ vc.pc = "sample"
    /\ CloneStep(IF ok THEN [vc EXCEPT !.pc = "clone"] ELSE Raise(vc))

\* create_instant_voice_clone: the provider creates the voice and its id is
\* kept, or the call raises and nothing was created
CreateInstantVoiceClone(ok) ==
    /\ vc # NoCall /\ vc.pc = "clone"
    /\ CloneStep(IF ok
                 THEN [vc EXCEPT !.pc = "matches",
                                 !.voices = @ \cup {CloneId},
                                 !.created = @ \cup {CloneId},
                                 !.cloned_voice_ids = @ \cup {CloneId},
                                 !.cloned_voice_id = CloneId]
                 ELSE Raise(vc))

\* Step 1: the matches given, or analyze_profanity, which may raise; with no
\* match the video is copied and the function returns
GetMatches(ok) ==
    /\ vc # NoCall /\ vc.pc = "matches"
    /\ (vc.profanity_matches /\ vc.phrases > 0) => ok
    /\ CloneStep(IF ~ok THEN Raise(vc)
                 ELSE IF vc.phrases = 0 THEN [vc EXCEPT !.pc = "finally"]
                 ELSE [vc EXCEPT !.pc = "phrases"])

\* one turn of the loop over the clusters: generate_speech_with_clone and
\* time_stretch_audio
DubOnePhrase(ok) ==
    /\ vc # NoCall /\ vc.pc = "phrases"
    /\ CloneStep(IF ~ok THEN Raise(vc)
                 ELSE IF vc.done + 1 = vc.phrases
                 THEN [vc EXCEPT !.done = @ + 1, !.pc = "patch"]
                 ELSE [vc EXCEPT !.done = @ + 1])

\* patch_audio_seamless, then return output_path
PatchAudioSeamless(ok) ==
    /\ vc # NoCall /\ vc.pc = "patch"
    /\ CloneStep(IF ok THEN [vc EXCEPT !.pc = "finally"] ELSE Raise(vc))

\* delete_cloned_voice: the provider deletes the voice, or the call fails,
\* the failure is logged and False is returned
DeleteClonedVoice(call, voice_id, ok) ==
    IF ok THEN [call EXCEPT !.voices = @ \ {voice_id},
                            !.cloned_voice_ids = @ \ {voice_id}]
    ELSE call

\* finally: if cloned_voice_id: self.delete_cloned_voice(cloned_voice_id)
CloneFinally(ok) ==
    /\ vc # NoCall /\ vc.pc = "finally"
    /\ CloneStep([(IF vc.cloned_voice_id # NoVoice
                   THEN DeleteClonedVoice(vc, vc.cloned_voice_id, ok)
                   ELSE vc) EXCEPT !.pc = "ended"])

CloneNext ==
    \E ok \in BOOLEAN :
       \/ ExtractAudioSample(ok)
       \/ CreateInstantVoiceClone(ok)
       \/ GetMatches(ok)
       \/ DubOnePhrase(ok)
       \/ PatchAudioSeamless(ok)
       \/ CloneFinally(ok)

CloneSpec == CloneInit /\ [][CloneNext]_vars

\* C22: when a dub that created a clone has ended, normally or through a
\* failure after the clone was created, no voice it created is still at the
\* provider.
C22_NoCloneLeftBehind ==
    (vc # NoCall /\ vc.pc = "ended" /\ vc.created # {}) =>
       vc.created \cap vc.voices = {}

\* ------------------------------------------------- rate-limited requests
MaxKeyframes == 3    \* keyframes of one segment_frames call

MaxRetries == 3
WaitBase == 15

\* a wait that does not grow
WaitTimeFlat(attempt) == WaitBase

\* wait_time = 15 * (attempt + 1)
WaitTime(attempt) == WaitBase * (attempt + 1)

\* what one request to the segmentation service does
Outcomes == {"ok", "429", "error"}

\* rate_limit_delay: none by default, or the seconds a caller asks for
RateLimitDelays == {0, 2}

\* segment_frames at its first keyframe; slept is the time waited between
\* keyframes ("if idx > 0 and rate_limit_delay > 0"); mask[i] is how keyframe i got its
\* mask: "none" not yet or not at all, "own" from the service, "prev" the
\* mask of the keyframe before
RetryInit ==
    /\ JobStoreInit
    /\ gcs
    /\ \E n \in 1..MaxKeyframes, delay \in RateLimitDelays :
          rt = [pc |-> "try", keyframes |-> n, idx |-> 1, attempt |-> 0,
                tries |-> 0, waits |-> <<>>,
                rate_limit_delay |-> delay, slept |-> 0,
                mask |-> [i \in 1..n |-> "none"]]
    /\ rw = NoCall /\ tl = NoCall /\ mm = NoCall
    /\ db = NoCall /\ vc = NoCall /\ pl = NoCall /\ ts = NoCall

\* break: on to the next keyframe, or out of the loop after the last
NextKeyframe(call) ==
    IF call.idx = call.keyframes THEN [call EXCEPT !.pc = "done"]
    ELSE [call EXCEPT !.idx = @ + 1, !.attempt = 0]

\* one turn of "for attempt in range(max_retries)": the request, and on an
\* exception the wait and the next turn, or the fallback and break; tries and
\* waits are those of the keyframe being worked on
SegmentAttempt(outcome) ==
    /\ rt # NoCall /\ rt.pc = "try"
    /\ rt.attempt < MaxRetries
    /\ LET tried == [rt EXCEPT !.tries = IF rt.attempt = 0 THEN 1 ELSE @ + 1,
                               !.waits = IF rt.attempt = 0 THEN <<>> ELSE @,
                               !.slept = IF rt.attempt = 0 /\ rt.idx > 1
                                         THEN @ + rt.rate_limit_delay ELSE @]
       IN rt' =
            IF outcome = "ok"
            THEN NextKeyframe([tried EXCEPT !.mask[rt.idx] = "own"])
            ELSE IF outcome = "429" /\ rt.attempt < MaxRetries - 1
            THEN [tried EXCEPT !.waits = Append(@, WaitTime(rt.attempt)),
                               !.attempt = @ + 1]
            ELSE NextKeyframe(
                    [tried EXCEPT !.mask[rt.idx] =
                        IF \E k \in 1..(rt.idx - 1) : rt.mask[k] # "none"
                        THEN "prev" ELSE "none"])
    /\ UNCHANGED <<rw, tl, mm, db, vc, pl, ts>>
    /\ JobStoreIdle

RetryNext == \E outcome \in Outcomes : SegmentAttempt(outcome)

RetrySpec == RetryInit /\ [][RetryNext]_vars

\* 2^n
RECURSIVE Pow2(_)
Pow2(n) == IF n = 0 THEN 1 ELSE 2 * Pow2(n - 1)

\* C23: a request is tried at most 3 times, and the wait before try k + 1
\* is 15 s doubled k - 1 times: 15 s before the second try, 30 s before the
\* third.
C23_AtMostThreeTries ==
    rt # NoCall =>
       /\ rt.tries <= 3
       /\ Len(rt.waits) <= 2
       /\ Len(rt.waits) <= rt.tries
       /\ \A k \in DOMAIN rt.waits : rt.waits[k] = 15 * Pow2(k - 1)

\* a request was rate-limited twice and tried a third time
C23_Witness ==
    rt # NoCall /\ rt.tries = 3 /\ rt.waits = <<15, 30>> /\ rt.pc = "done"

\* ------------------------------------------------------ polling a task
MaxLatency == 1      \* the longest a status request takes, in seconds

MaxWait == 300
PollSleep == 5

\* what one GET /tasks/{task_id} answers: a status, or an HTTP error
TaskStatuses == {"PENDING", "RUNNING", "SUCCEEDED", "FAILED", "http_error"}

\* the loop goes on for FAILED as for a task still processing
TerminalOnlySucceeded(status) == status = "SUCCEEDED"

\* the statuses on which _poll_task leaves its loop
Terminal(status) == status \in {"SUCCEEDED", "FAILED"}

\* _poll_task entered: start_time = time.time()
PollInit ==
    /\ JobStoreInit
    /\ gcs
    /\ pl = [pc |-> "polling", elapsed |-> 0, polls |-> 0,
             status |-> "none", result |-> "none"]
    /\ rw = NoCall /\ tl = NoCall /\ mm = NoCall
    /\ db = NoCall /\ vc = NoCall /\ rt = NoCall /\ ts = NoCall

PollStep(next) ==
    /\ pl' = next
    /\ UNCHANGED <<rw, tl, mm, db, vc, rt, ts>>
    /\ JobStoreIdle

\* one turn of the loop, entered while time.time() - start_time < max_wait:
\* the request takes d seconds; raise_for_status raises on an HTTP error; a
\* SUCCEEDED task returns its video URL, or raises ValueError if it carries
\* none; a FAILED task raises RuntimeError; otherwise time.sleep(5)
PollOnce(status, has_url, d) ==
    /\ pl # NoCall /\ pl.pc = "polling"
    /\ pl.elapsed < MaxWait
    /\ LET got == [pl EXCEPT !.elapsed = @ + d, !.polls = @ + 1,
                             !.status = status]
       IN PollStep(
            IF status = "http_error"
            THEN [got EXCEPT !.pc = "ended", !.result = "HTTPStatusError"]
            ELSE IF Terminal(status)
            THEN [got EXCEPT !.pc = "ended",
                             !.result = IF status = "FAILED" THEN "RuntimeError"
                                        ELSE IF has_url THEN "video_url"
                                        ELSE "ValueError"]
            ELSE [got EXCEPT !.elapsed = @ + PollSleep])

\* the loop test fails: raise TimeoutError
PollTimeout ==
    /\ pl # NoCall /\ pl.pc = "polling"
    /\ ~(pl.elapsed < MaxWait)
    /\ PollStep([pl EXCEPT !.pc = "ended", !.result = "TimeoutError"])

PollNext ==
    \/ \E status \in TaskStatuses, has_url \in BOOLEAN, d \in 0..MaxLatency :
          PollOnce(status, has_url, d)
    \/ PollTimeout

PollSpec == PollInit /\ [][PollNext]_vars

\* _poll_task runs on the thread of its request: each request returns within
\* the client's timeout and each sleep ends, so the loop keeps stepping
PollFairSpec == PollSpec /\ WF_vars(PollNext)

\* C24: polling ends; a poll answered SUCCEEDED ends it at once with the
\* task's output, a poll answered FAILED ends it at once with a failure,
\* TimeoutError is raised when and only when the loop finds 300 s gone, and
\* once it has ended nothing is polled again.
C24_PollingTerminates ==
    /\ <>(pl # NoCall /\ pl.pc = "ended")
    /\ [][/\ (pl.pc = "polling" /\ pl'.status = "SUCCEEDED"
                 /\ pl'.polls = pl.polls + 1)
              => (pl'.pc = "ended"
                  /\ pl'.result \in {"video_url", "ValueError"})
          /\ (pl.pc = "polling" /\ pl'.status = "FAILED"
                 /\ pl'.polls = pl.polls + 1)
              => (pl'.pc = "ended" /\ pl'.result = "RuntimeError")
          /\ (pl.pc = "polling" /\ pl.elapsed >= 300)
              => (pl'.result = "TimeoutError" /\ pl'.polls = pl.polls)
          /\ pl'.result = "TimeoutError" => pl.elapsed >= 300
          /\ pl.pc = "ended" => pl' = pl]_vars

\* the task was still processing at every poll until the bound was reached
C24_Witness ==
    pl # NoCall /\ pl.pc = "ended" /\ pl.result = "TimeoutError"
       /\ pl.polls >= 50 /\ pl.status = "RUNNING"

\* ------------------------------------------------------- response codes
\* "except Exception as e: raise HTTPException(status_code=500, ...)" around
\* a handler's body: HTTPException is an Exception, so a 404 or 400 raised
\* inside the try leaves the handler as a 500
Rewrapped(status) == 500

\* what analyze_audio answers: both of its checks are inside its try.
\* ok: the analyzer returns
AnalyzeAudioResponse(j, ok, dl) ==
    LET g == GetJob(j, dl)
    IN IF g.job = NoJob THEN Rewrapped(404)
       ELSE IF ~HasVideo(g.disk, j, g.job) THEN Rewrapped(400)
       ELSE IF ok THEN 200 ELSE 500

\* analyze_audio: only its get_job call changes state
AnalyzeAudio(j, ok, dl) ==
    /\ Request(j, dl)
    /\ LET g == GetJob(j, dl)
       IN IF g.job = NoJob THEN NotFound(g)
          ELSE Quiet(g.jobs, g.disk)

\* what replace_with_runway answers: the job and video_path checks are
\* before its try, the check of video_url is inside it
RunwayResponse(j, smart, outcome, dl) ==
    LET g == GetJob(j, dl)
        job == g.job
        in == IF smart THEN ChainSource(g.disk, j, job)
              ELSE RunwayFullSource(g.disk, j, job)
        hasUrl == IF smart THEN gcs ELSE job.gcs_url # ""
    IN IF job = NoJob THEN 404
       ELSE IF job.video_path = NoPath THEN 400
       ELSE IF ~Exists(g.disk, j, in) THEN 500
       ELSE IF ~hasUrl THEN Rewrapped(400)
       ELSE IF outcome = "ok" THEN 200 ELSE 500

\* uploads, deletions and the requests whose answers are followed
ApiNext ==
    \/ UploadCleanup
    \/ \E urlOk \in BOOLEAN : UploadCreate(urlOk)
    \/ \E j \in Ids, dl \in BOOLEAN : DeleteJob(j, dl)
    \/ \E j \in Ids, dl \in BOOLEAN : GetStatus(j, dl)
    \/ \E j \in Ids, ok \in BOOLEAN, dl \in BOOLEAN : AnalyzeAudio(j, ok, dl)
    \/ \E j \in Ids, smart \in BOOLEAN, o \in {"ok", "fail"},
          dl \in BOOLEAN : ReplaceWithRunway(j, smart, o, dl)

ApiSpec == Init /\ [][ApiNext]_vars

\* C25: in every state, a request that names an unknown job is answered 404
\* by get_job_status, analyze_audio and replace_with_runway, and a
\* replace_with_runway or analyze_audio request on a job that lacks what the
\* operation needs (its video file, a public URL of the video) is answered
\* 400.
C25_UnknownIs404LackingIs400 ==
    \A j \in Ids, dl \in BOOLEAN :
       LET g == GetJob(j, dl)
       IN /\ g.job = NoJob =>
               /\ StatusResponse(j, dl).status = 404
               /\ \A ok \in BOOLEAN : AnalyzeAudioResponse(j, ok, dl) = 404
               /\ \A smart \in BOOLEAN, o \in {"ok", "fail"} :
                     RunwayResponse(j, smart, o, dl) = 404
          /\ (g.job # NoJob /\ ~HasVideo(g.disk, j, g.job)) =>
               \A ok \in BOOLEAN : AnalyzeAudioResponse(j, ok, dl) = 400
          /\ (g.job # NoJob /\ HasVideo(g.disk, j, g.job)
                 /\ g.job.gcs_url = "") =>
               \A o \in {"ok", "fail"} :
                  RunwayResponse(j, FALSE, o, dl) = 400

\* -------------------------------------------------------- latest output
\* the names of the edit results in the directory of job j
Results(d, j) ==
    {n \in DOMAIN d[j].files : "seq" \in DOMAIN d[j].files[n]
                               /\ d[j].files[n].seq >= 1}

\* the most recently written edit result of job j
LatestResult(d, j) ==
    CHOOSE n \in Results(d, j) :
       \A m \in Results(d, j) : d[j].files[m].seq <= d[j].files[n].seq

\* C26: for every known job, whatever its stage, download serves the most
\* recently written edit result when the directory holds one, and the
\* source video when it holds none.
C26_DownloadServesLatest ==
    \A j \in Ids, dl \in BOOLEAN :
       LET g == GetJob(j, dl)
           r == DownloadResponse(j, dl)
       IN (g.job # NoJob /\ g.disk[j] # NoDir) =>
             IF Results(g.disk, j) # {}
             THEN r.status = 200 /\ r.file.name = LatestResult(g.disk, j)
             ELSE HasVideo(g.disk, j, g.job) =>
                     (r.status = 200 /\ r.file = g.job.video_path)

\* ------------------------------------------ upload and its extraction
\* uploads, their background extractions and the polls of their jobs
ExtractNext ==
    \/ UploadCleanup
    \/ \E urlOk \in BOOLEAN : UploadCreate(urlOk)
    \/ \E j \in Ids : BgStart(j)
    \/ \E j \in Ids, ok \in BOOLEAN : BgExtract(j, ok)
    \/ \E j \in Ids, dl \in BOOLEAN : GetStatus(j, dl)
    \/ \E j \in Ids, dl \in BOOLEAN : Download(j, dl)

\* a scheduled background task is run by the worker pool, and the
\* extraction it runs returns or raises
ExtractFairness ==
    \A j \in Ids : /\ WF_vars(BgStart(j))
                   /\ WF_vars(\E ok \in BOOLEAN : BgExtract(j, ok))

ExtractSpec == Init /\ [][ExtractNext]_vars

ExtractFairSpec == ExtractSpec /\ ExtractFairness

\* the background extraction of job j is over and has left j with all its
\* frames in ascending order, or FAILED with an error
ExtractionSettled(j) ==
    /\ bg[j].pc = "done"
    /\ jobs[j] # NoJob
    /\ \/ jobs[j].frame_paths = SortedFrames(j, 0..(NFrames - 1))
       \/ jobs[j].stage = "failed" /\ jobs[j].error # ""

\* C27: upload returns with the job registered, its video info set, exactly
\* one preview frame recorded and its extraction scheduled but not started;
\* and every scheduled extraction eventually ends with the job holding all
\* frames in ascending order or FAILED with an error, also when the job is
\* polled or another upload arrives meanwhile.
C27_UploadThenExtraction ==
    /\ [][(\E urlOk \in BOOLEAN : UploadCreate(urlOk)) =>
            /\ jobs'[nextId] # NoJob
            /\ jobs'[nextId].video_info # ""
            /\ Len(jobs'[nextId].frame_paths) = 1
            /\ bg'[nextId].pc = "scheduled"]_vars
    /\ \A j \in Ids : (bg[j].pc = "scheduled") ~> ExtractionSettled(j)

\* --------------------------------------------------------- time stretch
\* durations of audio are counted in units of 50 ms
MaxTarget == 4       \* the longest phrase
MaxRaw == 5          \* the longest generated speech

NoFile == -1

\* one phrase of a dub: generate_speech has written raw_dub, of raw units;
\* the phrase lasts target = end_time - start_time units
StretchInit ==
    /\ JobStoreInit
    /\ gcs
    /\ \E target \in 1..MaxTarget, raw \in 1..MaxRaw :
          ts = [pc |-> "trim", target |-> target, raw |-> raw,
                trimmed |-> NoFile, source_duration |-> 0,
                stretched |-> NoFile, overlaid |-> NoFile]
    /\ rw = NoCall /\ tl = NoCall /\ mm = NoCall
    /\ db = NoCall /\ vc = NoCall /\ rt = NoCall /\ pl = NoCall

StretchStep(next) ==
    /\ ts' = next
    /\ UNCHANGED <<rw, tl, mm, db, vc, rt, pl>>
    /\ JobStoreIdle

\* trim_audio_silence: silence units of silence are cut off, or ffmpeg fails
\* and the input is copied
TrimAudioSilence(ok, silence) ==
    /\ ts # NoCall /\ ts.pc = "trim"
    /\ silence <= ts.raw
    /\ StretchStep([ts EXCEPT !.pc = "measure",
                              !.trimmed = IF ok THEN ts.raw - silence
                                          ELSE ts.raw])

\* get_audio_duration of the trimmed file: 0.0 when ffprobe fails or prints
\* no number; "if source_duration <= 0" the raw file is copied to the output
GetAudioDuration(ok) ==
    /\ ts # NoCall /\ ts.pc = "measure"
    /\ LET source_duration == IF ok THEN ts.trimmed ELSE 0
       IN StretchStep(IF source_duration <= 0
                      THEN [ts EXCEPT !.pc = "patch", !.stretched = ts.raw]
                      ELSE [ts EXCEPT !.pc = "stretch",
                                      !.source_duration = source_duration])

\* the atempo chain divides the length by tempo_ratio = source_duration /
\* target_duration, and atrim=0:target_duration cuts what is longer
StretchedDuration(source_duration, target_duration) ==
    Min((source_duration * target_duration) \div source_duration,
        target_duration)

\* the ffmpeg run of time_stretch_audio; when it fails output_path is
\* returned without having been written (the pad-and-trim fallback stands
\* after the return and is never run)
Stretch(ok) ==
    /\ ts # NoCall /\ ts.pc = "stretch"
    /\ StretchStep([ts EXCEPT !.pc = "patch",
                              !.stretched =
                                 IF ok THEN StretchedDuration(ts.source_duration,
                                                              ts.target)
                                 ELSE NoFile])

\* patch_audio_seamless for the phrase: ffmpeg fails on an input that does
\* not exist; otherwise the file is faded out at the phrase's length and
\* mixed in at start_time, so it is heard for its own length or the
\* phrase's, whichever is less
PatchPhrase ==
    /\ ts # NoCall /\ ts.pc = "patch"
    /\ StretchStep(IF ts.stretched = NoFile
                   THEN [ts EXCEPT !.pc = "raised"]
                   ELSE [ts EXCEPT !.pc = "overlaid",
                                   !.overlaid = Min(ts.stretched, ts.target)])

StretchNext ==
    \/ \E ok \in BOOLEAN, silence \in 0..1 : TrimAudioSilence(ok, silence)
    \/ \E ok \in BOOLEAN : GetAudioDuration(ok)
    \/ \E ok \in BOOLEAN : Stretch(ok)
    \/ PatchPhrase

StretchSpec == StretchInit /\ [][StretchNext]_vars

\* C28: the audio overlaid for a phrase lasts the phrase's length to within
\* 50 ms (one unit), whichever way time_stretch_audio was left.
C28_OverlayLastsPhrase ==
    (ts # NoCall /\ ts.pc = "overlaid") =>
       Abs(ts.overlaid - ts.target) <= 1

\* C29: when the background extraction of job j finishes, j is still in the
\* registry and its directory still holds its source, whatever uploads
\* created other jobs while the extraction was in flight.
C29_UploadLeavesOtherJobs ==
    [][\A j \in Ids :
         (\E ok \in BOOLEAN : BgExtract(j, ok)) =>
            /\ jobs'[j] # NoJob
            /\ disk'[j] # NoDir
            /\ "input" \in DOMAIN disk'[j].files]_vars

C31_OutputIsNotInput ==
    [][\A j \in Ids, dl \in BOOLEAN :
         LET g == GetJob(j, dl)
         IN (/\ clock' = clock + 1
             /\ g.job # NoJob
             /\ jobs'[j] # NoJob)
            => /\ (\E e \in Effects :
                      \/ BlurClip(j, e, OnePrompt, OneWindow, "ok", dl)
                      \/ BlurFull(j, e, OnePrompt, "ok", dl))
                  => ChainSource(g.disk, j, g.job) # jobs'[j].output_path
               /\ ReplaceWithRunway(j, TRUE, "ok", dl)
                  => ChainSource(g.disk, j, g.job) # jobs'[j].output_path
               /\ ReplaceWithRunway(j, FALSE, "ok", dl)
                  => RunwayFullSource(g.disk, j, g.job) # jobs'[j].output_path
               /\ (\E m \in {"beep", "dub"} : CensorAudio(j, m, "ok", dl))
                  => CensorSource(g.disk, j, g.job) # jobs'[j].output_path]_vars

\* the keyframe whose requests segment_frames has just finished with
LastWorked(call) ==
    IF call.pc = "done" THEN call.keyframes ELSE call.idx - 1

\* C32: when the third try for a keyframe has failed too, segment_frames
\* ends by raising: it neither goes on to the next keyframe nor returns its
\* masks, with the mask of the keyframe before in place of the missing one
\* or with none.
C32_ExhaustedRetriesAreReported ==
    (/\ rt # NoCall
     /\ rt.tries = 3
     /\ (rt.pc = "done" \/ rt.attempt = 0)
     /\ LastWorked(rt) >= 1
     /\ rt.mask[LastWorked(rt)] # "own")
    => rt.pc = "raised"

\* C33: when the ffmpeg run of time_stretch_audio ends with a non-zero exit
\* status, the operation raises to its caller: it does not return its
\* output path and leave the caller to go on to the patching.
C33_FailedToolRunRaises ==
    [][Stretch(FALSE) => ts'.pc = "raised"]_vars

\* ------------------------------------ frame list and frames directory
\* The worker thread that runs extract_frames is followed past its tool
\* run: the ffmpeg run writes the frame files while requests are served,
\* and the thread assigns the job's fields when the run has returned.

\* FrameExtractor.extract_frames inside extract_frames: the ffmpeg run.
\* On failure the thread marks the job failed and ends.
BgRunFfmpeg(j, ok) ==
    /\ bg[j].pc = "running"
    /\ LET d1 == Mkdir(disk, j)
           good == ok /\ "input" \in DOMAIN d1[j].files
       IN /\ disk' = IF good
                     THEN [d1 EXCEPT ![j] =
                             [@ EXCEPT !.frames = 0..(NFrames - 1)]]
                     ELSE d1
          /\ jobs' = IF bg[j].live /\ ~good
                     THEN [jobs EXCEPT ![j] = ExtractFailedJob(@)]
                     ELSE jobs
          /\ bg' = [bg EXCEPT ![j] =
                      IF good THEN [@ EXCEPT !.pc = "written"]
                      ELSE [pc |-> "done", live |-> FALSE]]
    /\ UNCHANGED <<aux, gcs, blob, up, nextId, clock>>

\* the rest of extract_frames after the run: frame_paths, video_info,
\* the audio extraction (whose failure is swallowed) and progress
BgAssign(j) ==
    /\ bg[j].pc = "written"
    /\ jobs' = IF bg[j].live THEN [jobs EXCEPT ![j] = ExtractedJob(@, j)]
               ELSE jobs
    /\ bg' = [bg EXCEPT ![j] = [pc |-> "done", live |-> FALSE]]
    /\ UNCHANGED <<aux, gcs, disk, blob, up, nextId, clock>>

\* uploads, the extraction thread step by step, restarts and the requests
\* that recover a job from the disk or from the blob store
FrameNext ==
    \/ UploadCleanup
    \/ \E urlOk \in BOOLEAN : UploadCreate(urlOk)
    \/ \E j \in Ids : BgStart(j)
    \/ \E j \in Ids, ok \in BOOLEAN : BgRunFfmpeg(j, ok)
    \/ \E j \in Ids : BgAssign(j)
    \/ \E wipe \in BOOLEAN : Restart(wipe)
    \/ \E j \in Ids, dl \in BOOLEAN : GetStatus(j, dl)

FrameSpec == Init /\ [][FrameNext]_vars

\* C34: for every job the program holds, frame_paths is either empty or
\* lists exactly the frame files present in the job's frames directory.
C34_FramePathsMatchDisk ==
    \A j \in Ids :
        jobs[j] # NoJob =>
            \/ jobs[j].frame_paths = <<>>
            \/ /\ disk[j] # NoDir
               /\ jobs[j].frame_paths = SortedFrames(j, disk[j].frames)

\* C35: whenever get_job answers a request with a job whose gcs_url is set,
\* the job's source video exists locally when get_job returns, also when
\* the re-download of the source fails.
C35_ReturnedJobHasSource ==
    \A j \in Ids, dl \in BOOLEAN :
        Request(j, dl) =>
            LET g == GetJob(j, dl)
            IN (g.job # NoJob /\ g.job.gcs_url # "")
                   => Exists(g.disk, j, g.job.video_path)

\* ------------------------------------------ generative-replace window
\* Times of a requested window in tenths of a second; the widening works
\* in twentieths so that half of the missing time is exact.
MaxWindowStart == 10   \* latest requested start, tenths of a second
MaxWindowLength == 12  \* longest requested window, tenths of a second
MinRunwayDuration == 20  \* MIN_RUNWAY_DURATION = 1.0, in twentieths

\* replace_with_runway: actual_start and actual_end of a time window, all
\* in twentieths of a second
RunwayWindow(start_time, end_time) ==
    LET clip_duration == end_time - start_time
    IN IF clip_duration < MinRunwayDuration
       THEN LET expand_needed == MinRunwayDuration - clip_duration
                half_expand == expand_needed \div 2
            IN [actual_start |-> Max(0, start_time - half_expand),
                actual_end |-> end_time + half_expand]
       ELSE [actual_start |-> start_time, actual_end |-> end_time]

WindowInit ==
    /\ JobStoreInit
    /\ gcs
    /\ \E s \in 0..MaxWindowStart, n \in 1..MaxWindowLength :
          tl = [pc |-> "requested", start_time |-> 2 * s,
                end_time |-> 2 * (s + n),
                actual_start |-> 2 * s, actual_end |-> 2 * (s + n)]
    /\ rw = NoCall /\ mm = NoCall
    /\ LaterIdle

\* replace_with_runway up to the clip it cuts
ExpandWindow ==
    /\ tl.pc = "requested"
    /\ LET w == RunwayWindow(tl.start_time, tl.end_time)
       IN tl' = [tl EXCEPT !.pc = "expanded",
                           !.actual_start = w.actual_start,
                           !.actual_end = w.actual_end]
    /\ UNCHANGED <<rw, mm, later>>
    /\ JobStoreIdle

WindowSpec == WindowInit /\ [][ExpandWindow]_vars

\* C36: when the requested window is shorter than 1.0 s, the window that is
\* clipped contains the requested one and is at least 1.0 s long.
C36_ExpandedWindowIsLongEnough ==
    (/\ tl.pc = "expanded"
     /\ tl.end_time - tl.start_time < MinRunwayDuration)
        => /\ tl.actual_start <= tl.start_time
           /\ tl.end_time <= tl.actual_end
           /\ tl.actual_end - tl.actual_start >= MinRunwayDuration

\* ------------------------------------------------ range of extract_clip
MaxClipVideo == 4   \* longest video, slots
MaxClipStart == 6   \* latest requested start, slots
MaxClipLength == 2  \* longest requested window, slots
MaxBuffer == 2      \* largest buffer, slots

\* FrameExtractor.extract_clip: buffered_start and buffered_end for a video
\* of the given duration
ClipRange(duration, start_time, end_time, buffer_seconds) ==
    [buffered_start |-> Max(0, start_time - buffer_seconds),
     buffered_end |-> Min(duration, end_time + buffer_seconds)]

RangeInit ==
    /\ JobStoreInit
    /\ gcs
    /\ \E T \in 1..MaxClipVideo, s \in 0..MaxClipStart,
          n \in 1..MaxClipLength, b \in 0..MaxBuffer :
          tl = [pc |-> "called", duration |-> T, start_time |-> s,
                end_time |-> s + n, buffer_seconds |-> b,
                buffered_start |-> 0, buffered_end |-> 0]
    /\ rw = NoCall /\ mm = NoCall
    /\ LaterIdle

\* extract_clip up to the ffmpeg command it builds: -ss buffered_start,
\* -t buffered_end - buffered_start
BuildClipCommand ==
    /\ tl.pc = "called"
    /\ LET r == ClipRange(tl.duration, tl.start_time, tl.end_time,
                          tl.buffer_seconds)
       IN tl' = [tl EXCEPT !.pc = "command",
                           !.buffered_start = r.buffered_start,
                           !.buffered_end = r.buffered_end]
    /\ UNCHANGED <<rw, mm, later>>
    /\ JobStoreIdle

RangeSpec == RangeInit /\ [][BuildClipCommand]_vars

\* C37: for a request with start < end and buffer >= 0 on a video of
\* duration T, the range extract_clip hands to ffmpeg satisfies
\* 0 <= buffered_start <= buffered_end <= T.
C37_RangeWithinVideo ==
    (/\ tl.pc = "command"
     /\ tl.start_time < tl.end_time
     /\ tl.buffer_seconds >= 0)
        => /\ 0 <= tl.buffered_start
           /\ tl.buffered_start <= tl.buffered_end
           /\ tl.buffered_end <= tl.duration

\* --------------------------------------------------------- beep censoring
\* a time in slots as milliseconds: int(t * 1000)
Millis(t) == (t * 1000) \div PerSecond

\* AudioBeepProcessor.apply_beeps: the beep generated for each match with
\* its adelay, and the windows of the volume filter that mutes the
\* original audio (between(t, start_time, end_time)), in milliseconds.
\* With no match the video is copied.
ApplyBeeps(profanity_matches) ==
    [copied |-> profanity_matches = <<>>,
     beeps |-> [i \in DOMAIN profanity_matches |->
                  LET match == profanity_matches[i]
                  IN [duration |-> Millis(match.end_time - match.start_time),
                      delay_ms |-> Millis(match.start_time)]],
     muted |-> [i \in DOMAIN profanity_matches |->
                  LET match == profanity_matches[i]
                  IN [from |-> Millis(match.start_time),
                      to |-> Millis(match.end_time)]]]

\* censor_audio in beep mode after the analysis: apply_beeps on the merged
\* matches
BeepMatches ==
    /\ mm # NoCall
    /\ mm.pc = "merged"
    /\ LET r == ApplyBeeps(mm.merged)
       IN mm' = [pc |-> "beeped", matches |-> mm.matches,
                 merged |-> mm.merged, copied |-> r.copied,
                 beeps |-> r.beeps, muted |-> r.muted]
    /\ UNCHANGED <<rw, tl, later>>
    /\ JobStoreIdle

BeepSpec == MergeInit /\ [][MergeAdjacent \/ BeepMatches]_vars

\* C38: after beep censoring there is one beep per merged match, as long as
\* the match and delayed by the match's start in milliseconds, and the
\* original audio is silenced over each match window widened by 50 ms on
\* both sides.
C38_BeepPerMatchAndPaddedMute ==
    (mm # NoCall /\ mm.pc = "beeped" /\ ~mm.copied) =>
        /\ Len(mm.beeps) = Len(mm.merged)
        /\ \A i \in DOMAIN mm.merged :
              /\ mm.beeps[i].duration =
                    Millis(mm.merged[i].end_time) - Millis(mm.merged[i].start_time)
              /\ mm.beeps[i].delay_ms = Millis(mm.merged[i].start_time)
              /\ mm.muted[i].from = Millis(mm.merged[i].start_time) - 50
              /\ mm.muted[i].to = Millis(mm.merged[i].end_time) + 50

\* ----------------------------------------------------- pixelate strength
\* BlurEffectRequest.blur_strength: Field(30, ge=5, le=100)
MinStrength == 5
MaxStrength == 100

\* (a variant that divides without flooring strength / 10 first)
PixelSizeUnfloored(blur_strength) == Max(8, 640 \div (blur_strength + 10))

\* pixel_size = max(8, 64 // (request.blur_strength // 10 + 1))
PixelSize(blur_strength) == Max(8, 64 \div (blur_strength \div 10 + 1))

\* no pixelate request has been served
PixelInit ==
    /\ JobStoreInit
    /\ gcs
    /\ tl = [pc |-> "pixelate", applied |-> <<>>]
    /\ rw = NoCall /\ mm = NoCall
    /\ LaterIdle

\* blur_object with effect_type "pixelate" and an accepted strength: the
\* block size handed to apply_pixelate_with_mask.  applied keeps the last
\* two requests served.
Pixelate(blur_strength) ==
    /\ tl.pc = "pixelate"
    /\ blur_strength \in MinStrength..MaxStrength
    /\ LET served == [blur_strength |-> blur_strength,
                      pixel_size |-> PixelSize(blur_strength)]
       IN tl' = [tl EXCEPT !.applied =
                    IF tl.applied = <<>> THEN <<served>>
                    ELSE <<tl.applied[Len(tl.applied)], served>>]
    /\ UNCHANGED <<rw, mm, later>>
    /\ JobStoreIdle

PixelSpec ==
    PixelInit /\ [][\E s \in MinStrength..MaxStrength : Pixelate(s)]_vars

\* C39: for every accepted strength the pixelate block size is
\* max(8, 64 / (strength/10 + 1)) with whole-number divisions, lies between
\* 8 and 64, and of two requests the one with the greater strength never
\* gets the larger block.
C39_PixelSizeFormulaMonotoneBounded ==
    tl.pc = "pixelate" =>
        /\ \A i \in DOMAIN tl.applied :
              LET r == tl.applied[i]
                  q == 64 \div (r.blur_strength \div 10 + 1)
              IN /\ r.pixel_size = IF q >= 8 THEN q ELSE 8
                 /\ 8 <= r.pixel_size
                 /\ r.pixel_size <= 64
        /\ \A i, k \in DOMAIN tl.applied :
              tl.applied[i].blur_strength <= tl.applied[k].blur_strength
                  => tl.applied[i].pixel_size >= tl.applied[k].pixel_size

\* the weakest and the strongest accepted request, served one after the other
C39_Witness ==
    /\ tl.pc = "pixelate"
    /\ Len(tl.applied) = 2
    /\ tl.applied[1] = [blur_strength |-> MinStrength, pixel_size |-> 64]
    /\ tl.applied[2] = [blur_strength |-> MaxStrength, pixel_size |-> 8]

====
